---- MODULE Spec2Model ----
(***************************************************************************)
(* FieldLens: the job progression state machine (routes/whatsapp.py,       *)
(* routes/jobs.py) driven by the verdicts of the validation pipeline       *)
(* (services/validate.py).                                                 *)
(*                                                                         *)
(* Scheduling.  whatsapp_webhook and debug_upload are `async def` handlers *)
(* whose database calls are synchronous pymongo calls: between two awaits  *)
(* a handler holds the event loop and no other handler runs (variable      *)
(* loop).  _process_and_notify and create_job are plain `def` functions,   *)
(* which the framework runs on pool threads: they interleave with          *)
(* everything at the granularity of one database operation.                *)
(***************************************************************************)
EXTENDS Integers, Sequences, FiniteSets, TLC

VARIABLES jobs, photos, store, procs, loop, out, call, lib, asked, reader

vars == <<jobs, photos, store, procs, loop, out, call, lib, asked, reader>>

(***************************************************************************)
(* Bounds of the model.                                                    *)
(***************************************************************************)
MaxJobs == 1
MaxPhotos == 2
MaxProcs == 2
MaxThreads == 2
MaxCalls == 2

Procs == 1..MaxProcs

(* the threads of the pool that run the evaluations *)
Threads == 1..MaxThreads

(***************************************************************************)
(* Python None, for textual and for numeric values.                        *)
(***************************************************************************)
None == "None"
NoneNum == -1

(***************************************************************************)
(* Photo type codes.  str.upper() on the codes the model uses.             *)
(***************************************************************************)
Upper(s) ==
  CASE s = "tilt" -> "TILT"
    [] s = "" -> ""
    [] OTHER -> s

LABEL_TYPES == {"LABELLING", "LABEL"}
AZIMUTH_TYPES == {"AZIMUTH"}

DEFAULTS == [blur_min |-> 140, dup_hamming_max |-> 5, label_skew_max |-> 20]

(***************************************************************************)
(* requiredTypes lists a client may post to create_job.                    *)
(***************************************************************************)
ReqLists ==
  { <<>>, <<"INSTALLATION", "CLUTTER">>, <<"AZIMUTH">>, <<"tilt">> }

Phones == {"whatsapp:+1"}

(***************************************************************************)
(* Images, by what the consumed capabilities report of them: whether       *)
(* load_bgr decodes the bytes, variance_of_laplacian, has_big_circle,      *)
(* largest_quadrilateral_skew_deg, phash (the number of leading one-bits   *)
(* of the fingerprint), and the fields that extract_label_fields and       *)
(* extract_azimuth read from the recognised text.                          *)
(***************************************************************************)
NoFields == [macId |-> None, rsn |-> None, azimuthDeg |-> NoneNum, azimuthDir |-> None]

ImageOf(name) ==
  CASE name = "BAD"   -> [decodable |-> FALSE, blur |-> 0, circle |-> FALSE, skew |-> NoneNum,
                          ones |-> 0, label |-> NoFields, az |-> NoFields]
    [] name = "BLUR"  -> [decodable |-> TRUE, blur |-> 50, circle |-> FALSE, skew |-> 5,
                          ones |-> 40, label |-> [NoFields EXCEPT !.rsn = "ABCD1234EF"],
                          az |-> NoFields]
    [] name = "LABEL" -> [decodable |-> TRUE, blur |-> 200, circle |-> FALSE, skew |-> 30,
                          ones |-> 20,
                          label |-> [NoFields EXCEPT !.macId = "CC:54:FE:E3:26:F8"],
                          az |-> NoFields]
    [] name = "AZ"    -> [decodable |-> TRUE, blur |-> 200, circle |-> TRUE, skew |-> NoneNum,
                          ones |-> 60, label |-> NoFields,
                          az |-> [NoFields EXCEPT !.azimuthDeg = 123, !.azimuthDir = "NE"]]
    [] name = "NORTH" -> [decodable |-> TRUE, blur |-> 200, circle |-> TRUE, skew |-> NoneNum,
                          ones |-> 62, label |-> NoFields,
                          az |-> [NoFields EXCEPT !.azimuthDeg = 0, !.azimuthDir = "N"]]
    [] name = "TILTED" -> [decodable |-> TRUE, blur |-> 200, circle |-> FALSE, skew |-> 40,
                           ones |-> 30, label |-> NoFields, az |-> NoFields]

Images == {"BAD", "BLUR", "LABEL", "AZ", "NORTH"}

(***************************************************************************)
(* services/dedupe.py                                                      *)
(***************************************************************************)
HashLen == 64

phash(img) == [i \in 1..HashLen |-> IF i <= img.ones THEN "1" ELSE "0"]

RECURSIVE SumDiff(_, _, _)
SumDiff(a, b, n) ==
  IF n = 0 THEN 0
  ELSE SumDiff(a, b, n - 1) + (IF a[n] # b[n] THEN 1 ELSE 0)

Min(x, y) == IF x <= y THEN x ELSE y

(* the positions where a has a one-bit and b has not *)
hamming_OneSided(a, b) ==
  Cardinality({ i \in 1..Min(Len(a), Len(b)) : a[i] = "1" /\ b[i] # "1" })

hamming(a, b) == SumDiff(a, b, Min(Len(a), Len(b)))

(***************************************************************************)
(* services/ocr.py: the functions on recognised text.  A text is a         *)
(* sequence of characters; an absent result (None) is the empty sequence.  *)
(* Each regular expression is the matching procedure of Python's re for    *)
(* that expression: leftmost match, alternatives in order, greedy          *)
(* repetition, backtracking.                                               *)
(***************************************************************************)
Digits == {"0", "1", "2", "3", "4", "5", "6", "7", "8", "9"}

Lowers ==
  <<"a", "b", "c", "d", "e", "f", "g", "h", "i", "j", "k", "l", "m",
    "n", "o", "p", "q", "r", "s", "t", "u", "v", "w", "x", "y", "z">>

Uppers ==
  <<"A", "B", "C", "D", "E", "F", "G", "H", "I", "J", "K", "L", "M",
    "N", "O", "P", "Q", "R", "S", "T", "U", "V", "W", "X", "Y", "Z">>

Letters == { Lowers[k] : k \in 1..Len(Lowers) } \cup { Uppers[k] : k \in 1..Len(Uppers) }

(* [0-9A-Fa-f] *)
HexChars == Digits \cup {"A", "B", "C", "D", "E", "F", "a", "b", "c", "d", "e", "f"}

(* \w and \s *)
WordChars == Letters \cup Digits \cup {"_"}

Spaces == {" ", "\n"}

(* str.upper() of one character and of a text *)
ToUpper(c) ==
  IF \E k \in 1..Len(Lowers) : Lowers[k] = c
  THEN Uppers[CHOOSE k \in 1..Len(Lowers) : Lowers[k] = c]
  ELSE c

UpperText(t) == [i \in 1..Len(t) |-> ToUpper(t[i])]

(* the character at position i, "" outside the text *)
Ch(t, i) == IF i >= 1 /\ i <= Len(t) THEN t[i] ELSE ""

(* `x or y` for a text, and its like for the first element of a list *)
OrElse(x, y) == IF x # <<>> THEN x ELSE y

HeadOr(seq, y) == IF seq # <<>> THEN Head(seq) ELSE y

(* \b between the characters i-1 and i *)
Boundary(t, i) == (Ch(t, i - 1) \in WordChars) # (Ch(t, i) \in WordChars)

(* a greedy run of characters of S from position i: the position after it *)
RunEnd(t, i, S) ==
  LET stops == { k \in i..(Len(t) + 1) : Ch(t, k) \notin S }
  IN CHOOSE k \in stops : \A m \in stops : k <= m

(* a literal under re.IGNORECASE at position i: the position after it, or 0 *)
LitEnd(t, i, w) ==
  IF i >= 1 /\ i + Len(w) - 1 <= Len(t) /\ \A k \in 1..Len(w) : ToUpper(t[i + k - 1]) = w[k]
  THEN i + Len(w) ELSE 0

(* literal, \s*, literal *)
LitWsLitEnd(t, i, w1, w2) ==
  LET e1 == LitEnd(t, i, w1)
  IN IF e1 = 0 THEN 0 ELSE LitEnd(t, RunEnd(t, e1, Spaces), w2)

(* `x in t` for texts *)
Contains(t, w) ==
  \E i \in 1..Len(t) : i + Len(w) - 1 <= Len(t) /\ SubSeq(t, i, i + Len(w) - 1) = w

(* str.strip() and str.splitlines() followed by the filter of empty lines *)
Strip(t) ==
  LET keep == { i \in 1..Len(t) : t[i] \notin Spaces }
  IN IF keep = {} THEN <<>>
     ELSE SubSeq(t, CHOOSE i \in keep : \A k \in keep : i <= k,
                    CHOOSE i \in keep : \A k \in keep : k <= i)

RECURSIVE SplitLines(_)
SplitLines(t) ==
  IF t = <<>> THEN <<>>
  ELSE LET ends == { k \in 1..(Len(t) + 1) : Ch(t, k) \in {"\n", ""} }
           e == CHOOSE k \in ends : \A m \in ends : k <= m
           ln == Strip(SubSeq(t, 1, e - 1))
           rest == SplitLines(SubSeq(t, e + 1, Len(t)))
       IN IF ln = <<>> THEN rest ELSE <<ln>> \o rest

(* the label group of MAC_KEYWORD and MAC_LINE_HINT at position i, \b on
   both sides: the ends of its matches in the order re tries them *)
KeywordEnds(t, i) ==
  LET MAC == <<"M", "A", "C">>
      tries == << LitWsLitEnd(t, i, MAC, <<"I", "D">>),
                  LitEnd(t, i, MAC),
                  LitWsLitEnd(t, i, <<"W", "L", "A", "N">>, MAC),
                  LitWsLitEnd(t, i, <<"W", "I", "F", "I">>, MAC),
                  LitWsLitEnd(t, i, <<"L", "A", "N">>, MAC),
                  LitWsLitEnd(t, i, <<"E", "T", "H", "E", "R", "N", "E", "T">>, MAC),
                  LitWsLitEnd(t, i, <<"E", "T", "H">>, MAC) >>
      Good(e) == e # 0 /\ Boundary(t, e)
  IN IF Boundary(t, i) THEN SelectSeq(tries, Good) ELSE <<>>

(* MAC_LINE_HINT.search(ln): the end of the leftmost match, or 0 *)
RECURSIVE HintEndFrom(_, _)
HintEndFrom(ln, i) ==
  IF i > Len(ln) THEN 0 ELSE HeadOr(KeywordEnds(ln, i), HintEndFrom(ln, i + 1))

HintEnd(ln) == HintEndFrom(ln, 1)

(* group 2 of MAC_KEYWORD after a label that ends at e: [:\-\s]* gives back
   what ([0-9A-Fa-f:\-\.\s]{12,48}) needs to reach 12 characters *)
KeywordValue(t, e) ==
  LET runEnd == RunEnd(t, e, HexChars \cup {":", "-", "."} \cup Spaces)
      sepEnd == RunEnd(t, e, {":", "-"} \cup Spaces)
      from == { s \in e..sepEnd : runEnd - s >= 12 }
      s == CHOOSE x \in from : \A y \in from : y <= x
      last == IF runEnd - s > 48 THEN s + 47 ELSE runEnd - 1
  IN IF from = {} THEN <<>> ELSE SubSeq(t, s, last)

RECURSIVE FirstValue(_, _)
FirstValue(t, ends) ==
  IF ends = <<>> THEN <<>>
  ELSE OrElse(KeywordValue(t, Head(ends)), FirstValue(t, Tail(ends)))

(* MAC_KEYWORD.search(ln).group(2), <<>> when there is no match *)
RECURSIVE KeywordGroupFrom(_, _)
KeywordGroupFrom(ln, i) ==
  IF i > Len(ln) THEN <<>>
  ELSE OrElse(FirstValue(ln, KeywordEnds(ln, i)), KeywordGroupFrom(ln, i + 1))

KeywordGroup(ln) == KeywordGroupFrom(ln, 1)

(* HEX_PAIR.findall(raw) from position i *)
RECURSIVE HexPairs(_, _)
HexPairs(raw, i) ==
  IF i + 1 > Len(raw) THEN <<>>
  ELSE IF raw[i] \in HexChars /\ raw[i + 1] \in HexChars
       THEN <<SubSeq(raw, i, i + 1)>> \o HexPairs(raw, i + 2)
       ELSE HexPairs(raw, i + 1)

(* ":".join(pairs) *)
RECURSIVE JoinColon(_)
JoinColon(pairs) ==
  IF pairs = <<>> THEN <<>>
  ELSE IF Len(pairs) = 1 THEN Head(pairs)
  ELSE Head(pairs) \o <<":">> \o JoinColon(Tail(pairs))

(* the first six pairs joined as they were read *)
_normalize_mac_AsRead(raw) ==
  LET hexes == HexPairs(raw, 1)
  IN IF raw = <<>> \/ Len(hexes) < 6 THEN <<>>
     ELSE JoinColon(SubSeq(hexes, 1, 6))

_normalize_mac(raw) ==
  LET hexes == HexPairs(raw, 1)
  IN IF raw = <<>> \/ Len(hexes) < 6 THEN <<>>
     ELSE JoinColon([k \in 1..6 |-> UpperText(hexes[k])])

(* MAC_RE and MAC_PATTERNS[0] at position i: six octets with separators *)
StrictAt(t, i) ==
  /\ Boundary(t, i)
  /\ \A k \in 0..5 : Ch(t, i + 3 * k) \in HexChars /\ Ch(t, i + 3 * k + 1) \in HexChars
  /\ \A k \in 0..4 : Ch(t, i + 3 * k + 2) \in {":", "-", "."}
  /\ Boundary(t, i + 17)

(* MAC_PATTERNS[1] at position i: twelve bare hex characters *)
BareAt(t, i) ==
  /\ Boundary(t, i)
  /\ \A k \in 0..11 : Ch(t, i + k) \in HexChars
  /\ Boundary(t, i + 12)

(* pat.search(t).group(0) for the two MAC_PATTERNS, <<>> without a match *)
StrictSearch(t) ==
  LET starts == { i \in 1..Len(t) : StrictAt(t, i) }
      i == CHOOSE x \in starts : \A y \in starts : x <= y
  IN IF starts = {} THEN <<>> ELSE SubSeq(t, i, i + 16)

BareSearch(t) ==
  LET starts == { i \in 1..Len(t) : BareAt(t, i) }
      i == CHOOSE x \in starts : \A y \in starts : x <= y
  IN IF starts = {} THEN <<>> ELSE SubSeq(t, i, i + 11)

(* the candidates the two patterns give on one line *)
Candidate(norm, mac_line) == IF norm # <<>> THEN << <<norm, mac_line>> >> ELSE <<>>

PatternCandidates(ln, mac_line) ==
  Candidate(_normalize_mac(StrictSearch(ln)), mac_line)
    \o Candidate(_normalize_mac(BareSearch(ln)), mac_line)

HasEAN(ln) == Contains(UpperText(ln), <<"E", "A", "N">>)

(* Pass A: the value after a MAC label, else the strict patterns, on the
   lines that mention MAC *)
RECURSIVE PassA(_)
PassA(lines) ==
  IF lines = <<>> THEN <<>>
  ELSE LET ln == Head(lines)
           norm == _normalize_mac(KeywordGroup(ln))
       IN (IF HasEAN(ln) \/ HintEnd(ln) = 0 THEN <<>>
           ELSE IF norm # <<>> THEN << <<norm, TRUE>> >>
           ELSE PatternCandidates(ln, TRUE))
          \o PassA(Tail(lines))

(* Pass B: the strict patterns on any line *)
RECURSIVE PassB(_)
PassB(lines) ==
  IF lines = <<>> THEN <<>>
  ELSE (IF HasEAN(Head(lines)) THEN <<>> ELSE PatternCandidates(Head(lines), FALSE))
       \o PassB(Tail(lines))

(* HEX_PAIR_BOUNDARY.findall(t) from position i *)
RECURSIVE BoundaryPairs(_, _)
BoundaryPairs(t, i) ==
  IF i + 1 > Len(t) THEN <<>>
  ELSE IF /\ t[i] \in HexChars /\ t[i + 1] \in HexChars
          /\ Ch(t, i - 1) \notin HexChars /\ Ch(t, i + 2) \notin HexChars
       THEN <<SubSeq(t, i, i + 1)>> \o BoundaryPairs(t, i + 2)
       ELSE BoundaryPairs(t, i + 1)

(* the windows of six pairs with at least four pairs that hold a digit *)
RECURSIVE Windows(_, _)
Windows(pairs, i) ==
  IF i + 5 > Len(pairs) THEN <<>>
  ELSE LET window == SubSeq(pairs, i, i + 5)
           digitful == Cardinality({ k \in 1..6 :
                          window[k][1] \in Digits \/ window[k][2] \in Digits })
           norm == _normalize_mac(JoinColon(window))
       IN (IF digitful >= 4 /\ norm # <<>> THEN << <<norm, TRUE>> >> ELSE <<>>)
          \o Windows(pairs, i + 1)

(* Pass C: spaced pairs after the MAC label of a line *)
RECURSIVE PassC(_)
PassC(lines) ==
  IF lines = <<>> THEN <<>>
  ELSE LET ln == Head(lines)
           tail == SubSeq(ln, HintEnd(ln), Len(ln))
       IN (IF HasEAN(ln) \/ HintEnd(ln) = 0 THEN <<>>
           ELSE Windows(BoundaryPairs(tail, 1), 1))
          \o PassC(Tail(lines))

OUI_PREFER == { <<"C", "C", ":", "5", "4", ":", "F", "E">> }

(* score(mac, mac_line)[0]; the second component is 1 for every candidate *)
MacScore(cand) ==
  (IF SubSeq(cand[1], 1, 8) \in OUI_PREFER THEN 1 ELSE 0) + (IF cand[2] THEN 1 ELSE 0)

BestMac(candidates) ==
  LET best == { k \in 1..Len(candidates) :
                  \A m \in 1..Len(candidates) : MacScore(candidates[m]) <= MacScore(candidates[k]) }
  IN IF candidates = <<>> THEN <<>>
     ELSE candidates[CHOOSE k \in best : \A m \in best : k <= m][1]

_extract_mac_from_lines(lines) ==
  BestMac(OrElse(PassA(lines), OrElse(PassB(lines), PassC(lines))))

(* MAC_RE.search over the whole text, upper-cased as it stands *)
extract_mac(text) == UpperText(StrictSearch(text))


(* the label alternatives of RSN_LABELED_RE at position i: the end, or 0 *)
RsnLabelEnd(t, i) ==
  LET tries == << LitEnd(t, i, <<"R", "S", "N">>),
                  LitEnd(t, i, <<"S", "/", "N">>),
                  LitEnd(t, i, <<"S", "E", "R", "I", "A", "L">>),
                  LitEnd(t, i, <<"S", "R", "N">>),
                  LitEnd(t, i, <<"A", "S", "N">>) >>
      NonZero(e) == e # 0
  IN IF Boundary(t, i) THEN HeadOr(SelectSeq(tries, NonZero), 0) ELSE 0

(* ([A-Z0-9\-]{6,24})\b under re.IGNORECASE at position q: the longest run
   of 6 to 24 characters that ends at a word boundary *)
RsnGroupAt(t, q) ==
  LET r == RunEnd(t, q, Letters \cup Digits \cup {"-"})
      most == IF r - q > 24 THEN 24 ELSE r - q
      lens == { n \in 6..most : Boundary(t, q + n) }
  IN IF lens = {} THEN <<>>
     ELSE SubSeq(t, q, q + (CHOOSE n \in lens : \A m \in lens : m <= n) - 1)

(* RSN_LABELED_RE at position i: group 1, or <<>>.  \s*[:#\-]?\s* takes the
   separator when it can; a '-' it gives back may start the group *)
RsnAfterSpace(t, w) ==
  OrElse(IF Ch(t, w) \in {":", "#", "-"} THEN RsnGroupAt(t, RunEnd(t, w + 1, Spaces)) ELSE <<>>,
         RsnGroupAt(t, w))

RsnAfterLabel(t, e) == IF e = 0 THEN <<>> ELSE RsnAfterSpace(t, RunEnd(t, e, Spaces))

RsnLabeledAt(t, i) == RsnAfterLabel(t, RsnLabelEnd(t, i))

(* RSN_LABELED_RE.search(t).group(1).upper(), <<>> without a match *)
RECURSIVE RsnLabeledFrom(_, _)
RsnLabeledFrom(t, i) ==
  IF i > Len(t) THEN <<>> ELSE OrElse(RsnLabeledAt(t, i), RsnLabeledFrom(t, i + 1))

RsnLabeled(t) == UpperText(RsnLabeledFrom(t, 1))

RSN_STOPWORDS ==
  { <<"C", "O", "M", "M", "O", "D", "I", "T", "Y">>,
    <<"I", "N", "D", "I", "A">>,
    <<"M", "A", "D", "E", "I", "N", "I", "N", "D", "I", "A">>,
    <<"W", "A", "R", "R", "A", "N", "T", "Y">>,
    <<"M", "O", "D", "E", "L">>,
    <<"M", "A", "N", "U", "F", "A", "C", "T", "U", "R", "E", "D">>,
    <<"E", "X", "P", "I", "R", "Y">>,
    <<"B", "A", "T", "C", "H">>,
    <<"A", "D", "D", "R", "E", "S", "S">>,
    <<"C", "O", "N", "T", "A", "C", "T">>,
    <<"S", "U", "P", "P", "O", "R", "T">>,
    <<"S", "E", "R", "V", "I", "C", "E">>,
    <<"H", "E", "L", "P", "L", "I", "N", "E">>,
    <<"S", "E", "R", "I", "E", "S">>,
    <<"P", "R", "O", "D", "U", "C", "T">>,
    <<"P", "O", "W", "E", "R">>,
    <<"V", "O", "L", "T">>,
    <<"A", "M", "P", "S">>,
    <<"H", "E", "R", "T", "Z">>,
    <<"D", "A", "T", "E">>,
    <<"C", "O", "D", "E">> }

DigitCount(tok) == Cardinality({ k \in 1..Len(tok) : tok[k] \in Digits })

_is_probable_rsn(token) ==
  LET s == UpperText(Strip(token))
  IN /\ token # <<>>
     /\ Len(s) >= 8 /\ Len(s) <= 24
     /\ ~StrictAt(s, 1)
     /\ s \notin RSN_STOPWORDS
     /\ DigitCount(s) >= 3

(* RSN_TOKEN_RE.findall(t) from position i, t in upper case: greedy pieces
   of 6 to 24 characters, one after the other *)
RECURSIVE RsnTokens(_, _)
RsnTokens(t, i) ==
  IF i > Len(t) THEN <<>>
  ELSE LET r == RunEnd(t, i, { Uppers[k] : k \in 1..Len(Uppers) } \cup Digits \cup {"-"})
           n == IF r - i > 24 THEN 24 ELSE r - i
       IN IF n >= 6 THEN <<SubSeq(t, i, i + n - 1)>> \o RsnTokens(t, i + n)
          ELSE RsnTokens(t, i + 1)

(* the first line with a labeled token that passes _is_probable_rsn *)
RECURSIVE LabeledInLines(_)
LabeledInLines(lines) ==
  IF lines = <<>> THEN <<>>
  ELSE IF _is_probable_rsn(RsnLabeled(Head(lines))) THEN RsnLabeled(Head(lines))
  ELSE LabeledInLines(Tail(lines))

RECURSIVE TokensOfLines(_)
TokensOfLines(lines) ==
  IF lines = <<>> THEN <<>>
  ELSE SelectSeq(RsnTokens(UpperText(Head(lines)), 1), _is_probable_rsn)
       \o TokensOfLines(Tail(lines))

(* candidates.sort(key=score, reverse=True)[0]: most digits, then longest,
   then first *)
BetterRsn(x, y) ==
  \/ DigitCount(x) > DigitCount(y)
  \/ DigitCount(x) = DigitCount(y) /\ Len(x) > Len(y)

extract_rsn(text, lines) ==
  LET candidates == SelectSeq(RsnTokens(UpperText(text), 1), _is_probable_rsn)
                      \o TokensOfLines(lines)
      best == { k \in 1..Len(candidates) :
                  \A m \in 1..Len(candidates) : ~BetterRsn(candidates[m], candidates[k]) }
  IN IF text = <<>> THEN <<>>
     ELSE IF _is_probable_rsn(RsnLabeled(text)) THEN RsnLabeled(text)
     ELSE IF LabeledInLines(lines) # <<>> THEN LabeledInLines(lines)
     ELSE IF candidates = <<>> THEN <<>>
     ELSE candidates[CHOOSE k \in best : \A m \in best : k <= m]

extract_label_fields(text) ==
  LET lines == SplitLines(text)
      mac == IF lines # <<>> THEN _extract_mac_from_lines(lines) ELSE <<>>
  IN [macId |-> IF mac # <<>> THEN mac ELSE extract_mac(text),
      rsn |-> extract_rsn(text, lines)]


(* int() of a run of digits *)
RECURSIVE IntOf(_)
IntOf(ds) ==
  IF ds = <<>> THEN 0
  ELSE 10 * IntOf(SubSeq(ds, 1, Len(ds) - 1))
       + (CHOOSE v \in 0..9 : <<"0", "1", "2", "3", "4", "5", "6", "7", "8", "9">>[v + 1]
                                = ds[Len(ds)])

(* (?P<dir>N|NE|E|SE|S|SW|W|NW)\b at position g: the first alternative, in
   this order, that ends at a word boundary *)
DirAt(t, g) ==
  LET alts == << <<"N">>, <<"N", "E">>, <<"E">>, <<"S", "E">>, <<"S">>, <<"S", "W">>,
                 <<"W">>, <<"N", "W">> >>
      Fits(w) == LitEnd(t, g, w) # 0 /\ Boundary(t, g + Len(w))
  IN HeadOr(SelectSeq(alts, Fits), <<>>)

NoAngle == [deg |-> NoneNum, dir |-> <<>>, end |-> 0]

(* ANGLE_RE at position i.  \d{1,3} must take the whole run of digits (a
   boundary never lies between two digits); \s*°?\s* runs greedily to g,
   where a direction is tried; without one the match ends at the last
   position up to g that is a word boundary *)
AngleEnd(t, d, g) ==
  LET ends == { p \in d..g : Boundary(t, p) }
  IN IF ends = {} THEN 0 ELSE CHOOSE p \in ends : \A m \in ends : m <= p

AngleWith(deg, dir, g, end) ==
  IF dir # <<>> THEN [deg |-> deg, dir |-> dir, end |-> g + Len(dir)]
  ELSE IF end # 0 THEN [deg |-> deg, dir |-> <<>>, end |-> end]
  ELSE NoAngle

MarkEnd(t, w) == IF Ch(t, w) = "°" THEN RunEnd(t, w + 1, Spaces) ELSE w

AngleFrom(t, i, d, g) ==
  IF ~(Ch(t, i) \in Digits /\ Boundary(t, i) /\ d - i <= 3) THEN NoAngle
  ELSE AngleWith(IntOf(SubSeq(t, i, d - 1)), DirAt(t, g), g, AngleEnd(t, d, g))

AngleAfterDigits(t, i, d) == AngleFrom(t, i, d, MarkEnd(t, RunEnd(t, d, Spaces)))

AngleAt(t, i) == AngleAfterDigits(t, i, RunEnd(t, i, Digits))

(* ANGLE_RE.finditer(t) from position i *)
RECURSIVE AngleMatches(_, _)
AngleMatches(t, i) ==
  IF i > Len(t) THEN <<>>
  ELSE IF AngleAt(t, i) # NoAngle
       THEN <<AngleAt(t, i)>> \o AngleMatches(t, AngleAt(t, i).end)
       ELSE AngleMatches(t, i + 1)

(* the first match in range, with a direction or not *)
extract_angle_FirstInRange(text) ==
  LET InRange(m) == 0 <= m.deg /\ m.deg <= 360
      hits == SelectSeq(AngleMatches(text, 1), InRange)
  IN IF hits # <<>> THEN [deg |-> Head(hits).deg, dir |-> Head(hits).dir]
     ELSE [deg |-> NoneNum, dir |-> <<>>]

extract_angle(text) ==
  LET InRange(m) == 0 <= m.deg /\ m.deg <= 360
      HasDir(m) == m.dir # <<>>
      hits == SelectSeq(AngleMatches(text, 1), InRange)
  IN IF SelectSeq(hits, HasDir) # <<>>
     THEN [deg |-> Head(SelectSeq(hits, HasDir)).deg, dir |-> Head(SelectSeq(hits, HasDir)).dir]
     ELSE IF hits # <<>> THEN [deg |-> Head(hits).deg, dir |-> <<>>]
     ELSE [deg |-> NoneNum, dir |-> <<>>]

extract_azimuth(text) ==
  [azimuthDeg |-> extract_angle(text).deg, azimuthDir |-> extract_angle(text).dir]

(***************************************************************************)
(* services/classify.py, called with ocr_hint = None                       *)
(***************************************************************************)
classify(img) == IF img.circle THEN "AZIMUTH" ELSE "LABELLING"

(***************************************************************************)
(* services/validate.py: run_pipeline.  expected is job_ctx.expectedType   *)
(* (None when the job has none), th the merged thresholds.                 *)
(***************************************************************************)
Truthy(s) == s # None /\ s # ""

(* the duplicate check of an earlier revision: a duplicate is an issue *)
run_pipeline_DupFails(img, expected, th, existing_phashes) ==
  LET blurry == img.blur < th.blur_min
      up == IF expected = None THEN "" ELSE Upper(expected)
      ptype == IF up = "" THEN classify(img) ELSE up
      cur_phash == phash(img)
      is_dup == \E i \in 1..Len(existing_phashes) :
                  hamming(cur_phash, existing_phashes[i]) <= th.dup_hamming_max
      isLabel == ptype \in LABEL_TYPES
      isAz == ptype \in AZIMUTH_TYPES
      fields == IF isLabel /\ ~blurry THEN img.label
                ELSE IF isAz /\ ~blurry THEN img.az
                ELSE NoFields
      has_ids == isLabel /\ ~blurry /\ (Truthy(fields.macId) \/ Truthy(fields.rsn))
      skewHigh == isLabel /\ img.skew # NoneNum /\ img.skew > th.label_skew_max
      issues ==
           (IF blurry THEN <<"Image is blurry">> ELSE <<>>)
        \o (IF is_dup THEN <<"Duplicate photo">> ELSE <<>>)
        \o (IF skewHigh /\ ~has_ids THEN <<"Label angle too skewed">> ELSE <<>>)
        \o (IF isLabel /\ ~has_ids THEN <<"Could not read MAC/RSN from label">> ELSE <<>>)
        \o (IF isAz /\ ~blurry /\ (fields.azimuthDeg = NoneNum \/ fields.azimuthDeg = 0)
            THEN <<"Could not read compass/azimuth value">> ELSE <<>>)
  IN [type |-> ptype,
      phash |-> cur_phash,
      fields |-> fields,
      checks |-> [blurScore |-> img.blur,
                  isDuplicate |-> is_dup,
                  skewDeg |-> IF isLabel THEN img.skew ELSE NoneNum,
                  hasLabelIds |-> has_ids,
                  skewWarn |-> skewHigh /\ has_ids],
      status |-> IF issues = <<>> THEN "PASS" ELSE "FAIL",
      reason |-> issues]

(* a skew test that fails the photo whether or not an identifier was read *)
run_pipeline_SkewFails(img, expected, th, existing_phashes) ==
  LET blurry == img.blur < th.blur_min
      up == IF expected = None THEN "" ELSE Upper(expected)
      ptype == IF up = "" THEN classify(img) ELSE up
      cur_phash == phash(img)
      is_dup == \E i \in 1..Len(existing_phashes) :
                  hamming(cur_phash, existing_phashes[i]) <= th.dup_hamming_max
      isLabel == ptype \in LABEL_TYPES
      isAz == ptype \in AZIMUTH_TYPES
      fields == IF isLabel /\ ~blurry THEN img.label
                ELSE IF isAz /\ ~blurry THEN img.az
                ELSE NoFields
      has_ids == isLabel /\ ~blurry /\ (Truthy(fields.macId) \/ Truthy(fields.rsn))
      skewHigh == isLabel /\ img.skew # NoneNum /\ img.skew > th.label_skew_max
      issues ==
           (IF blurry THEN <<"Image is blurry">> ELSE <<>>)
        \o (IF skewHigh THEN <<"Label angle too skewed">> ELSE <<>>)
        \o (IF isLabel /\ ~has_ids THEN <<"Could not read MAC/RSN from label">> ELSE <<>>)
        \o (IF isAz /\ ~blurry /\ (fields.azimuthDeg = NoneNum \/ fields.azimuthDeg = 0)
            THEN <<"Could not read compass/azimuth value">> ELSE <<>>)
  IN [type |-> ptype,
      phash |-> cur_phash,
      fields |-> fields,
      checks |-> [blurScore |-> img.blur,
                  isDuplicate |-> is_dup,
                  skewDeg |-> IF isLabel THEN img.skew ELSE NoneNum,
                  hasLabelIds |-> has_ids,
                  skewWarn |-> FALSE],
      status |-> IF issues = <<>> THEN "PASS" ELSE "FAIL",
      reason |-> issues]

(* text recognition and skew measurement for every type *)
run_pipeline_ReadsAll(img, expected, th, existing_phashes) ==
  LET blurry == img.blur < th.blur_min
      up == IF expected = None THEN "" ELSE Upper(expected)
      ptype == IF up = "" THEN classify(img) ELSE up
      cur_phash == phash(img)
      is_dup == \E i \in 1..Len(existing_phashes) :
                  hamming(cur_phash, existing_phashes[i]) <= th.dup_hamming_max
      isLabel == ptype \in LABEL_TYPES
      isAz == ptype \in AZIMUTH_TYPES
      fields == IF blurry THEN NoFields
                ELSE IF isAz THEN img.az
                ELSE img.label
      has_ids == isLabel /\ ~blurry /\ (Truthy(fields.macId) \/ Truthy(fields.rsn))
      skewHigh == isLabel /\ img.skew # NoneNum /\ img.skew > th.label_skew_max
      issues ==
           (IF blurry THEN <<"Image is blurry">> ELSE <<>>)
        \o (IF skewHigh /\ ~has_ids THEN <<"Label angle too skewed">> ELSE <<>>)
        \o (IF isLabel /\ ~has_ids THEN <<"Could not read MAC/RSN from label">> ELSE <<>>)
        \o (IF isAz /\ ~blurry /\ (fields.azimuthDeg = NoneNum \/ fields.azimuthDeg = 0)
            THEN <<"Could not read compass/azimuth value">> ELSE <<>>)
  IN [type |-> ptype,
      phash |-> cur_phash,
      fields |-> fields,
      checks |-> [blurScore |-> img.blur,
                  isDuplicate |-> is_dup,
                  skewDeg |-> img.skew,
                  hasLabelIds |-> has_ids,
                  skewWarn |-> skewHigh /\ has_ids],
      status |-> IF issues = <<>> THEN "PASS" ELSE "FAIL",
      reason |-> issues]

run_pipeline(img, expected, th, existing_phashes) ==
  LET blurry == img.blur < th.blur_min
      up == IF expected = None THEN "" ELSE Upper(expected)
      ptype == IF up = "" THEN classify(img) ELSE up
      cur_phash == phash(img)
      is_dup == \E i \in 1..Len(existing_phashes) :
                  hamming(cur_phash, existing_phashes[i]) <= th.dup_hamming_max
      isLabel == ptype \in LABEL_TYPES
      isAz == ptype \in AZIMUTH_TYPES
      fields == IF isLabel /\ ~blurry THEN img.label
                ELSE IF isAz /\ ~blurry THEN img.az
                ELSE NoFields
      has_ids == isLabel /\ ~blurry /\ (Truthy(fields.macId) \/ Truthy(fields.rsn))
      skewHigh == isLabel /\ img.skew # NoneNum /\ img.skew > th.label_skew_max
      issues ==
           (IF blurry THEN <<"Image is blurry">> ELSE <<>>)
        \o (IF skewHigh /\ ~has_ids THEN <<"Label angle too skewed">> ELSE <<>>)
        \o (IF isLabel /\ ~has_ids THEN <<"Could not read MAC/RSN from label">> ELSE <<>>)
        \o (IF isAz /\ ~blurry /\ (fields.azimuthDeg = NoneNum \/ fields.azimuthDeg = 0)
            THEN <<"Could not read compass/azimuth value">> ELSE <<>>)
  IN [type |-> ptype,
      phash |-> cur_phash,
      fields |-> fields,
      checks |-> [blurScore |-> img.blur,
                  isDuplicate |-> is_dup,
                  skewDeg |-> IF isLabel THEN img.skew ELSE NoneNum,
                  hasLabelIds |-> has_ids,
                  skewWarn |-> skewHigh /\ has_ids],
      status |-> IF issues = <<>> THEN "PASS" ELSE "FAIL",
      reason |-> issues]

(***************************************************************************)
(* Documents.  A job's _id is its position in jobs, a photo's _id its      *)
(* position in photos (ObjectIds grow with insertion).                     *)
(***************************************************************************)
new_job(worker_phone, required_types) ==
  [workerPhone |-> worker_phone, requiredTypes |-> required_types,
   currentIndex |-> 0, status |-> "PENDING",
   macId |-> None, rsnId |-> None, azimuthDeg |-> NoneNum]

NoJob == [new_job(None, <<>>) EXCEPT !.status = None]

NoResult ==
  [type |-> None, phash |-> <<>>, fields |-> NoFields,
   checks |-> [blurScore |-> 0, isDuplicate |-> FALSE, skewDeg |-> NoneNum,
               hasLabelIds |-> FALSE, skewWarn |-> FALSE],
   status |-> None, reason |-> <<>>]

NoMsg == [kind |-> None, rtype |-> None, ptype |-> None, reasons |-> <<>>]

Msg(kind, rtype, ptype, reasons) ==
  [kind |-> kind, rtype |-> rtype, ptype |-> ptype, reasons |-> reasons]

Idle ==
  [pc |-> "idle", from |-> None, media |-> None, img |-> None, jobId |-> 0,
   job |-> NoJob, expected |-> None, result |-> NoResult, result_type |-> None,
   last_photo |-> 0, text |-> NoMsg]

_current_expected_type_First(job) ==
  IF job.requiredTypes # <<>> THEN job.requiredTypes[1] ELSE None

_current_expected_type(job) ==
  LET idx == job.currentIndex
      r == job.requiredTypes
  IN IF 0 <= idx /\ idx < Len(r) THEN r[idx + 1] ELSE None

(* db.jobs.find_one({"workerPhone": phone, "status": {"$in": [...]}}) *)
ActiveJobs_Any(phone) ==
  { j \in 1..Len(jobs) : jobs[j].workerPhone = phone }

ActiveJobs(phone) ==
  { j \in 1..Len(jobs) :
      jobs[j].workerPhone = phone /\ jobs[j].status \in {"PENDING", "IN_PROGRESS"} }

(* `expected or "LABELLING"` *)
OrLabelling_Always(expected) == "LABELLING"

OrLabelling(expected) == IF expected = None THEN "LABELLING" ELSE expected

RECURSIVE SelectPhashes(_, _, _)
SelectPhashes(ps, jobId, ptype) ==
  IF ps = <<>> THEN <<>>
  ELSE LET ph == Head(ps)
           rest == SelectPhashes(Tail(ps), jobId, ptype)
       IN IF ph.jobId = jobId /\ ph.type = ptype /\ ph.status \in {"PASS", "FAIL"}
             /\ ph.phash # <<>>
          THEN <<ph.phash>> \o rest
          ELSE rest

(* the photos query of _process_and_notify and debug_upload *)
prev_phashes(jobId, expected) ==
  SelectPhashes(photos, jobId, IF expected = None THEN "" ELSE Upper(expected))

(* `(result.get("type") or expected or "LABELLING").upper()` *)
ResultType_AsWritten(result, expected) == OrLabelling(expected)

ResultType(result, expected) ==
  Upper(IF Truthy(result.type) THEN result.type ELSE OrLabelling(expected))

(* the `updates` of the promotion block applied to a job document *)
HasUpdates(fields) ==
  Truthy(fields.macId) \/ Truthy(fields.rsn) \/ fields.azimuthDeg # NoneNum

Promote(job, fields) ==
  [job EXCEPT
     !.macId = IF Truthy(fields.macId) THEN fields.macId ELSE @,
     !.rsnId = IF Truthy(fields.rsn) THEN fields.rsn ELSE @,
     !.azimuthDeg = IF fields.azimuthDeg # NoneNum THEN fields.azimuthDeg ELSE @]

(* update_one(..., {"$inc": {"currentIndex": 1}}) *)
IncCursor_Skip(js, jobId) == [js EXCEPT ![jobId].currentIndex = @ + 2]

IncCursor_Back(js, jobId) == [js EXCEPT ![jobId].currentIndex = @ - 1]

IncCursor(js, jobId) == [js EXCEPT ![jobId].currentIndex = @ + 1]

(* `status == "PASS" and expected and result_type == expected` *)
Advances_AnyStatus(result, expected, result_type) ==
  Truthy(expected) /\ result_type = expected

Advances_AnyType(result, expected, result_type) ==
  result.status = "PASS" /\ Truthy(expected)

Advances(result, expected, result_type) ==
  result.status = "PASS" /\ Truthy(expected) /\ result_type = expected

(* the same document without a status *)
ProcessingPhoto_NoStatus(jobId, result_hint, key) ==
  [jobId |-> jobId, type |-> result_hint, s3Key |-> key, phash |-> <<>>,
   fields |-> NoFields, checks |-> NoResult.checks, status |-> None,
   reason |-> <<>>]

(* the photo document of the webhook's insert_one *)
ProcessingPhoto(jobId, result_hint, key) ==
  [jobId |-> jobId, type |-> result_hint, s3Key |-> key, phash |-> <<>>,
   fields |-> NoFields, checks |-> NoResult.checks, status |-> "PROCESSING",
   reason |-> <<>>]

(* the $set of the photo update, and debug_upload's photo_doc *)
VerdictPhoto_NoReason(photo, result, result_type) ==
  [photo EXCEPT !.type = result_type, !.phash = result.phash, !.fields = result.fields,
                !.checks = result.checks, !.status = result.status]

VerdictPhoto(photo, result, result_type) ==
  [photo EXCEPT !.type = result_type, !.phash = result.phash, !.fields = result.fields,
                !.checks = result.checks, !.status = result.status,
                !.reason = result.reason]

(* find_one({"jobId": ...}, sort=[("_id", -1)]): 0 when there is none *)
LastPhotoOf(jobId) ==
  LET S == { i \in 1..Len(photos) : photos[i].jobId = jobId }
  IN IF S = {} THEN 0 ELSE CHOOSE i \in S : \A k \in S : k <= i

(* the thresholds a job's creation request asks for; NoneNum for a threshold
   it does not mention.  merged over DEFAULTS as `{**DEFAULTS, **thresholds}` *)
NoOverride == [blur_min |-> NoneNum, dup_hamming_max |-> NoneNum, label_skew_max |-> NoneNum]

Merged(defaults, thresholds) ==
  [k \in DOMAIN defaults |-> IF thresholds[k] # NoneNum THEN thresholds[k] ELSE defaults[k]]

(* one call of a function of services/ocr.py or services/dedupe.py on its
   own: the argument (a text, or two fingerprints) and what it returned *)
NoLib ==
  [text |-> <<>>, a |-> <<>>, b |-> <<>>, ran |-> {},
   macId |-> <<>>, rsn |-> <<>>, deg |-> NoneNum, dir |-> <<>>, dist |-> NoneNum]

(* one call of run_pipeline: its arguments and what it returned *)
NoCall ==
  [img |-> None, expected |-> None, th |-> DEFAULTS, existing |-> <<>>,
   result |-> NoResult]

(* services/ocr.py: the module global _easyocr_reader (obj, 0 for None; the
   k-th Reader constructed is k), the number of Reader objects constructed
   so far, whether the startup handler has run, and for each thread its
   position in _easyocr(), the Reader it constructed, what the call returned
   and the number of its calls *)
NoReader ==
  [obj |-> 0, built |-> 0, started |-> FALSE,
   th |-> [t \in Threads |-> [pc |-> "out", inst |-> 0, got |-> 0, calls |-> 0]]]

LowestIdle(p) ==
  procs[p].pc = "idle" /\ \A q \in Procs : q < p => procs[q].pc # "idle"

Finish(p) == procs' = [procs EXCEPT ![p] = Idle]

Init ==
  /\ jobs = <<>>
  /\ photos = <<>>
  /\ store = <<>>
  /\ procs = [p \in Procs |-> Idle]
  /\ loop = 0
  /\ out = NoMsg
  /\ call = NoCall
  /\ lib = NoLib
  /\ asked = <<>>
  /\ reader = NoReader

(***************************************************************************)
(* Every step leaves in out the reply or notification it produced (NoMsg   *)
(* when it produced none).                                                 *)
(***************************************************************************)
Silent == out' = NoMsg

(* requests admitted that will still store an image: the model's bound *)
Storing ==
  Cardinality({ p \in Procs :
     \/ procs[p].pc \in {"w_find", "w_mark", "w_fetch"} /\ procs[p].media = "image"
     \/ procs[p].pc \in {"d_read", "d_promote", "d_insert"} })

Room == Len(store) + Storing < MaxPhotos

(***************************************************************************)
(* routes/jobs.py: create_job                                              *)
(***************************************************************************)
CreateJob(phone, req, thresholds) ==
  /\ Len(jobs) < MaxJobs
  /\ jobs' = Append(jobs, new_job(phone, req))
  /\ asked' = Append(asked, thresholds)
  /\ Silent
  /\ UNCHANGED <<photos, store, procs, loop, call, lib, reader>>

(***************************************************************************)
(* routes/whatsapp.py: whatsapp_webhook                                    *)
(***************************************************************************)
Medias == {"none", "nourl", "nonimage", "image"}

(* the form is parsed: From, NumMedia, MediaUrl0, MediaContentType0 *)
WebhookArrive(p, from, media) ==
  /\ LowestIdle(p)
  /\ media = "image" => Room
  /\ procs' = [procs EXCEPT ![p] = [Idle EXCEPT !.pc = "w_find", !.from = from,
                                                !.media = media]]
  /\ Silent
  /\ UNCHANGED <<jobs, photos, store, loop, call, lib, asked, reader>>

(* find_one of an active job of the sender; the no-active-job reply *)
WebhookFind(p) ==
  /\ procs[p].pc = "w_find"
  /\ loop = 0
  /\ \/ /\ ActiveJobs(procs[p].from) = {}
        /\ out' = Msg("no_active", None, None, <<>>)
        /\ Finish(p)
        /\ UNCHANGED loop
     \/ /\ \E j \in ActiveJobs(procs[p].from) :
             procs' = [procs EXCEPT ![p].pc = "w_mark", ![p].jobId = j,
                                    ![p].job = jobs[j]]
        /\ loop' = p
        /\ Silent
  /\ UNCHANGED <<jobs, photos, store, call, lib, asked, reader>>

(* `if job.get("status") == "PENDING": update_one(... "IN_PROGRESS")` *)
MarkInProgress_Always(js, jobId, job) ==
  [js EXCEPT ![jobId].status = "IN_PROGRESS"]

MarkInProgress_Never(js, jobId, job) == js

MarkInProgress(js, jobId, job) ==
  IF job.status = "PENDING" THEN [js EXCEPT ![jobId].status = "IN_PROGRESS"] ELSE js

(* PENDING -> IN_PROGRESS, the text-only prompt, the content-type check *)
WebhookMark(p) ==
  LET job == procs[p].job
      expected == _current_expected_type(job)
  IN
  /\ procs[p].pc = "w_mark"
  /\ jobs' = MarkInProgress(jobs, procs[p].jobId, job)
  /\ loop' = 0
  /\ \/ /\ procs[p].media = "none"
        /\ out' = Msg("prompt", None, OrLabelling(expected), <<>>)
        /\ Finish(p)
     \/ /\ procs[p].media \in {"nourl", "nonimage"}
        /\ out' = Msg("invalid_image", None, OrLabelling(expected), <<>>)
        /\ Finish(p)
     \/ /\ procs[p].media = "image"
        /\ procs' = [procs EXCEPT ![p].pc = "w_fetch", ![p].expected = expected]
        /\ Silent
  /\ UNCHANGED <<photos, store, call, lib, asked, reader>>

(* _fetch_media, put_bytes, insert_one, add_task and the acknowledgment *)
WebhookFetch(p) ==
  LET expected == procs[p].expected
      result_hint == Upper(OrLabelling(expected))
      jobId == procs[p].jobId
  IN
  /\ procs[p].pc = "w_fetch"
  /\ loop = 0
  /\ \/ /\ out' = Msg("download_failed", None, OrLabelling(expected), <<>>)
        /\ Finish(p)
        /\ UNCHANGED <<photos, store>>
     \/ /\ out' = Msg("save_failed", None, None, <<>>)
        /\ Finish(p)
        /\ UNCHANGED <<photos, store>>
     \/ \E data \in Images :
          /\ store' = Append(store, [jobId |-> jobId, data |-> data])
          /\ out' = Msg("save_failed", None, None, <<>>)
          /\ Finish(p)
          /\ UNCHANGED photos
     \/ \E data \in Images :
          /\ store' = Append(store, [jobId |-> jobId, data |-> data])
          /\ photos' = Append(photos, ProcessingPhoto(jobId, result_hint, Len(store) + 1))
          /\ procs' = [procs EXCEPT ![p].pc = "t_load", ![p].img = data]
          /\ out' = Msg("ack", None, None, <<>>)
  /\ UNCHANGED <<jobs, loop, call, lib, asked, reader>>

(***************************************************************************)
(* routes/whatsapp.py: _process_and_notify, one database operation a step  *)
(***************************************************************************)
(* 1) reload the job; the job is missing: abort *)
TaskLoad(p) ==
  /\ procs[p].pc = "t_load"
  /\ IF procs[p].jobId \in 1..Len(jobs)
     THEN procs' = [procs EXCEPT ![p].pc = "t_pipe", ![p].job = jobs[procs[p].jobId],
                      ![p].expected = _current_expected_type(jobs[procs[p].jobId])]
     ELSE Finish(p)
  /\ Silent
  /\ UNCHANGED <<jobs, photos, store, loop, call, lib, asked, reader>>

(* 2)-4) decode, the earlier fingerprints, run_pipeline *)
TaskPipeline(p) ==
  LET img == ImageOf(procs[p].img)
      expected == procs[p].expected
      result == run_pipeline(img, expected, DEFAULTS, prev_phashes(procs[p].jobId, expected))
  IN
  /\ procs[p].pc = "t_pipe"
  /\ IF ~img.decodable
     THEN Finish(p)
     ELSE procs' = [procs EXCEPT
                      ![p].pc = IF HasUpdates(result.fields) THEN "t_promote" ELSE "t_last",
                      ![p].result = result,
                      ![p].result_type = ResultType(result, expected)]
  /\ Silent
  /\ UNCHANGED <<jobs, photos, store, loop, call, lib, asked, reader>>

(* the promotion of the identifiers to the job *)
TaskPromote(p) ==
  /\ procs[p].pc = "t_promote"
  /\ jobs' = [jobs EXCEPT ![procs[p].jobId] = Promote(@, procs[p].result.fields)]
  /\ procs' = [procs EXCEPT ![p].pc = "t_last"]
  /\ Silent
  /\ UNCHANGED <<photos, store, loop, call, lib, asked, reader>>

(* 5) find the last inserted photo of the job *)
TaskFindLast(p) ==
  /\ procs[p].pc = "t_last"
  /\ procs' = [procs EXCEPT ![p].pc = "t_upd", ![p].last_photo = LastPhotoOf(procs[p].jobId)]
  /\ Silent
  /\ UNCHANGED <<jobs, photos, store, loop, call, lib, asked, reader>>

(* 5) write the verdict to it; 6) the advance test *)
TaskUpdatePhoto(p) ==
  LET lp == procs[p].last_photo
  IN
  /\ procs[p].pc = "t_upd"
  /\ photos' = IF lp = 0 THEN photos
               ELSE [photos EXCEPT ![lp] = VerdictPhoto(@, procs[p].result,
                                                        procs[p].result_type)]
  /\ procs' = [procs EXCEPT ![p].pc =
                 IF Advances(procs[p].result, procs[p].expected, procs[p].result_type)
                 THEN "t_inc" ELSE "t_compose"]
  /\ Silent
  /\ UNCHANGED <<jobs, store, loop, call, lib, asked, reader>>

(* 6) {"$inc": {"currentIndex": 1}} *)
TaskInc(p) ==
  /\ procs[p].pc = "t_inc"
  /\ jobs' = IncCursor(jobs, procs[p].jobId)
  /\ procs' = [procs EXCEPT ![p].pc = "t_reread"]
  /\ Silent
  /\ UNCHANGED <<photos, store, loop, call, lib, asked, reader>>

(* 6) job = find_one(...) after the increment *)
TaskReread(p) ==
  /\ procs[p].pc = "t_reread"
  /\ procs' = [procs EXCEPT ![p].pc = "t_compose", ![p].job = jobs[procs[p].jobId]]
  /\ Silent
  /\ UNCHANGED <<jobs, photos, store, loop, call, lib, asked, reader>>

(* 7) compose the outbound message; status DONE when nothing is expected *)
TaskCompose(p) ==
  LET result == procs[p].result
      result_type == procs[p].result_type
      expected == procs[p].expected
      next_expected == _current_expected_type(procs[p].job)
      fallback_type == IF Truthy(expected) THEN expected ELSE result_type
      reasons == IF result.reason = <<>> THEN <<"needs retake">> ELSE result.reason
  IN
  /\ procs[p].pc = "t_compose"
  /\ \/ /\ result.status = "PASS"
        /\ next_expected = None
        /\ jobs' = [jobs EXCEPT ![procs[p].jobId].status = "DONE"]
        /\ procs' = [procs EXCEPT ![p].pc = "t_notify",
                                  ![p].text = Msg("done", None, None, <<>>)]
     \/ /\ result.status = "PASS"
        /\ next_expected # None
        /\ procs' = [procs EXCEPT ![p].pc = "t_notify",
                                  ![p].text = Msg("next", result_type, next_expected, <<>>)]
        /\ UNCHANGED jobs
     \/ /\ result.status # "PASS"
        /\ procs' = [procs EXCEPT ![p].pc = "t_notify",
                       ![p].text = Msg("retake", result_type, fallback_type, reasons)]
        /\ UNCHANGED jobs
  /\ Silent
  /\ UNCHANGED <<photos, store, loop, call, lib, asked, reader>>

(* 8) the proactive message *)
TaskNotify(p) ==
  /\ procs[p].pc = "t_notify"
  /\ out' = procs[p].text
  /\ Finish(p)
  /\ UNCHANGED <<jobs, photos, store, loop, call, lib, asked, reader>>

(* a database call, the pipeline or the REST call raises: the except clause *)
TaskRaise(p) ==
  /\ \/ procs[p].pc \in {"t_load", "t_promote", "t_last", "t_upd", "t_inc", "t_reread",
                         "t_notify"}
     \/ procs[p].pc = "t_pipe" /\ ImageOf(procs[p].img).decodable
     \/ /\ procs[p].pc = "t_compose"
        /\ procs[p].result.status = "PASS"
        /\ _current_expected_type(procs[p].job) = None
  /\ Finish(p)
  /\ Silent
  /\ UNCHANGED <<jobs, photos, store, loop, call, lib, asked, reader>>

(***************************************************************************)
(* routes/whatsapp.py: debug_upload                                        *)
(***************************************************************************)
(* find the active job of workerPhone or insert LABELLING -> AZIMUTH *)
DebugFind(p, phone) ==
  /\ LowestIdle(p)
  /\ Room
  /\ loop = 0
  /\ \/ /\ \E j \in ActiveJobs(phone) :
             procs' = [procs EXCEPT ![p] = [Idle EXCEPT !.pc = "d_read", !.from = phone,
                         !.jobId = j, !.job = jobs[j],
                         !.expected = _current_expected_type(jobs[j])]]
        /\ UNCHANGED <<jobs, asked>>
     \/ /\ ActiveJobs(phone) = {}
        /\ Len(jobs) < MaxJobs
        /\ LET job == [new_job(phone, <<"LABELLING", "AZIMUTH">>)
                         EXCEPT !.status = "IN_PROGRESS"]
           IN /\ jobs' = Append(jobs, job)
              /\ asked' = Append(asked, NoOverride)
              /\ procs' = [procs EXCEPT ![p] = [Idle EXCEPT !.pc = "d_read",
                             !.from = phone, !.jobId = Len(jobs) + 1, !.job = job,
                             !.expected = _current_expected_type(job)]]
  /\ Silent
  /\ UNCHANGED <<photos, store, loop, call, lib, reader>>

(* file.read(), load_bgr, the earlier fingerprints, run_pipeline *)
DebugPipeline(p, data) ==
  LET img == ImageOf(data)
      expected == procs[p].expected
      result == run_pipeline(img, expected, DEFAULTS, prev_phashes(procs[p].jobId, expected))
  IN
  /\ procs[p].pc = "d_read"
  /\ loop = 0
  /\ IF ~img.decodable
     THEN /\ out' = Msg("decode_failed", None, None, <<>>)
          /\ Finish(p)
          /\ UNCHANGED loop
     ELSE /\ procs' = [procs EXCEPT
                         ![p].pc = IF HasUpdates(result.fields) THEN "d_promote"
                                   ELSE "d_insert",
                         ![p].img = data,
                         ![p].result = result,
                         ![p].result_type = ResultType(result, expected)]
          /\ loop' = p
          /\ Silent
  /\ UNCHANGED <<jobs, photos, store, call, lib, asked, reader>>

DebugPromote(p) ==
  /\ procs[p].pc = "d_promote"
  /\ jobs' = [jobs EXCEPT ![procs[p].jobId] = Promote(@, procs[p].result.fields)]
  /\ procs' = [procs EXCEPT ![p].pc = "d_insert"]
  /\ Silent
  /\ UNCHANGED <<photos, store, loop, call, lib, asked, reader>>

(* put_bytes, insert_one of the photo document, the advance test *)
DebugInsert(p) ==
  LET result == procs[p].result
      result_type == procs[p].result_type
      jobId == procs[p].jobId
      doc == VerdictPhoto(ProcessingPhoto(jobId, result_type, Len(store) + 1),
                          result, result_type)
  IN
  /\ procs[p].pc = "d_insert"
  /\ store' = Append(store, [jobId |-> jobId, data |-> procs[p].img])
  /\ photos' = Append(photos, doc)
  /\ IF Advances(result, procs[p].expected, result_type)
     THEN /\ procs' = [procs EXCEPT ![p].pc = "d_inc"]
          /\ Silent
          /\ UNCHANGED loop
     ELSE /\ out' = Msg("debug_ok", result_type, None, result.reason)
          /\ Finish(p)
          /\ loop' = 0
  /\ UNCHANGED <<jobs, call, lib, asked, reader>>

DebugInc(p) ==
  /\ procs[p].pc = "d_inc"
  /\ jobs' = IncCursor(jobs, procs[p].jobId)
  /\ procs' = [procs EXCEPT ![p].pc = "d_reread"]
  /\ Silent
  /\ UNCHANGED <<photos, store, loop, call, lib, asked, reader>>

DebugReread(p) ==
  /\ procs[p].pc = "d_reread"
  /\ IF _current_expected_type(jobs[procs[p].jobId]) = None
     THEN /\ procs' = [procs EXCEPT ![p].pc = "d_done", ![p].job = jobs[procs[p].jobId]]
          /\ Silent
          /\ UNCHANGED loop
     ELSE /\ out' = Msg("debug_ok", procs[p].result_type, None, procs[p].result.reason)
          /\ Finish(p)
          /\ loop' = 0
  /\ UNCHANGED <<jobs, photos, store, call, lib, asked, reader>>

DebugDone(p) ==
  /\ procs[p].pc = "d_done"
  /\ jobs' = [jobs EXCEPT ![procs[p].jobId].status = "DONE"]
  /\ out' = Msg("debug_ok", procs[p].result_type, None, procs[p].result.reason)
  /\ Finish(p)
  /\ loop' = 0
  /\ UNCHANGED <<photos, store, call, lib, asked, reader>>

(* a call of the handler raises after the pipeline started: a 500 response *)
DebugRaise(p) ==
  /\ procs[p].pc \in {"d_promote", "d_insert", "d_inc", "d_reread", "d_done"}
  /\ out' = Msg("error_500", None, None, <<>>)
  /\ Finish(p)
  /\ loop' = 0
  /\ UNCHANGED <<jobs, photos, store, call, lib, asked, reader>>

Next ==
  \/ \E phone \in Phones, req \in ReqLists : CreateJob(phone, req, NoOverride)
  \/ \E p \in Procs, from \in Phones, media \in Medias : WebhookArrive(p, from, media)
  \/ \E p \in Procs : WebhookFind(p)
  \/ \E p \in Procs : WebhookMark(p)
  \/ \E p \in Procs : WebhookFetch(p)
  \/ \E p \in Procs : TaskLoad(p)
  \/ \E p \in Procs : TaskPipeline(p)
  \/ \E p \in Procs : TaskPromote(p)
  \/ \E p \in Procs : TaskFindLast(p)
  \/ \E p \in Procs : TaskUpdatePhoto(p)
  \/ \E p \in Procs : TaskInc(p)
  \/ \E p \in Procs : TaskReread(p)
  \/ \E p \in Procs : TaskCompose(p)
  \/ \E p \in Procs : TaskNotify(p)
  \/ \E p \in Procs : TaskRaise(p)
  \/ \E p \in Procs, phone \in Phones : DebugFind(p, phone)
  \/ \E p \in Procs, data \in Images : DebugPipeline(p, data)
  \/ \E p \in Procs : DebugPromote(p)
  \/ \E p \in Procs : DebugInsert(p)
  \/ \E p \in Procs : DebugInc(p)
  \/ \E p \in Procs : DebugReread(p)
  \/ \E p \in Procs : DebugDone(p)
  \/ \E p \in Procs : DebugRaise(p)

Spec == Init /\ [][Next]_vars

(***************************************************************************)
(* Webhook deliveries and their background tasks alone, none of whose      *)
(* calls raises: the behaviours of Spec without debug uploads and without  *)
(* infrastructure failures.                                                *)
(***************************************************************************)
NextHook ==
  \/ \E phone \in Phones, req \in ReqLists : CreateJob(phone, req, NoOverride)
  \/ \E p \in Procs, from \in Phones, media \in Medias : WebhookArrive(p, from, media)
  \/ \E p \in Procs : WebhookFind(p)
  \/ \E p \in Procs : WebhookMark(p)
  \/ \E p \in Procs : WebhookFetch(p)
  \/ \E p \in Procs : TaskLoad(p)
  \/ \E p \in Procs : TaskPipeline(p)
  \/ \E p \in Procs : TaskPromote(p)
  \/ \E p \in Procs : TaskFindLast(p)
  \/ \E p \in Procs : TaskUpdatePhoto(p)
  \/ \E p \in Procs : TaskInc(p)
  \/ \E p \in Procs : TaskReread(p)
  \/ \E p \in Procs : TaskCompose(p)
  \/ \E p \in Procs : TaskNotify(p)

SpecHook == Init /\ [][NextHook]_vars

(***************************************************************************)
(* The same, with the deliveries handled one at a time: a message arrives  *)
(* only after the background task of the previous one has finished.        *)
(***************************************************************************)
Serial == Cardinality({ p \in Procs : procs[p].pc # "idle" }) <= 1

NextSeq == NextHook /\ Serial'

SpecSeq == Init /\ [][NextSeq]_vars

(***************************************************************************)
(* The same, for jobs whose creation request asks for thresholds of its    *)
(* own.  CreateJob of schemas.py has no such field and new_job stores      *)
(* none: the request's values are kept in asked only.                      *)
(***************************************************************************)
Overrides ==
  { [NoOverride EXCEPT !.blur_min = 40], [NoOverride EXCEPT !.dup_hamming_max = 0],
    [NoOverride EXCEPT !.label_skew_max = 45] }

NextConf ==
  /\ \/ \E phone \in Phones, req \in ReqLists, th \in Overrides : CreateJob(phone, req, th)
     \/ NextHook
  /\ Serial'

SpecConf == Init /\ [][NextConf]_vars

(***************************************************************************)
(* Progress.  A handler the framework has started runs to its return, and  *)
(* a background task that was added runs to its end: each call keeps       *)
(* taking its next step.  Nothing obliges a client to send anything.       *)
(***************************************************************************)
Run(p) ==
  \/ WebhookFind(p) \/ WebhookMark(p) \/ WebhookFetch(p)
  \/ TaskLoad(p) \/ TaskPipeline(p) \/ TaskPromote(p) \/ TaskFindLast(p)
  \/ TaskUpdatePhoto(p) \/ TaskInc(p) \/ TaskReread(p) \/ TaskCompose(p)
  \/ TaskNotify(p)

SpecLive == Init /\ [][NextHook]_vars /\ \A p \in Procs : WF_vars(Run(p))

(***************************************************************************)
(* services/ocr.py: _easyocr, and main.py: _warmup_ocr.  The startup       *)
(* handler runs before any request is served; afterwards the evaluations   *)
(* call _easyocr() from the threads of the pool, a statement a step.       *)
(***************************************************************************)
(* `_ = _easyocr()` at startup: the reader is loaded, or the call raises
   and the handler prints "Warmup failed (will lazy-load later)" *)
_warmup_ocr ==
  /\ ~reader.started
  /\ \/ reader' = [reader EXCEPT !.started = TRUE, !.obj = 1, !.built = 1]
     \/ reader' = [reader EXCEPT !.started = TRUE]
  /\ UNCHANGED <<jobs, photos, store, procs, loop, out, call, lib, asked>>

(* an evaluation calls _easyocr() *)
EasyCall(t) ==
  /\ reader.started
  /\ reader.th[t].pc = "out"
  /\ reader.th[t].calls < MaxCalls
  /\ reader' = [reader EXCEPT !.th[t].pc = "test", !.th[t].calls = @ + 1]
  /\ UNCHANGED <<jobs, photos, store, procs, loop, out, call, lib, asked>>

(* `if _easyocr_reader is None:` *)
EasyTest(t) ==
  /\ reader.th[t].pc = "test"
  /\ reader' = [reader EXCEPT !.th[t].pc = IF reader.obj = 0 THEN "build" ELSE "return"]
  /\ UNCHANGED <<jobs, photos, store, procs, loop, out, call, lib, asked>>

(* `import easyocr` and `easyocr.Reader(["en"], gpu=False)`: a new Reader, or
   an exception that ends the call *)
EasyBuild(t) ==
  /\ reader.th[t].pc = "build"
  /\ \/ reader' = [reader EXCEPT !.built = @ + 1, !.th[t].inst = reader.built + 1,
                                 !.th[t].pc = "store"]
     \/ reader' = [reader EXCEPT !.th[t].pc = "out", !.th[t].got = 0]
  /\ UNCHANGED <<jobs, photos, store, procs, loop, out, call, lib, asked>>

(* `_easyocr_reader = ...` *)
EasyStore(t) ==
  /\ reader.th[t].pc = "store"
  /\ reader' = [reader EXCEPT !.obj = reader.th[t].inst, !.th[t].pc = "return"]
  /\ UNCHANGED <<jobs, photos, store, procs, loop, out, call, lib, asked>>

(* `return _easyocr_reader` *)
EasyReturn(t) ==
  /\ reader.th[t].pc = "return"
  /\ reader' = [reader EXCEPT !.th[t].pc = "out", !.th[t].got = reader.obj,
                              !.th[t].inst = 0]
  /\ UNCHANGED <<jobs, photos, store, procs, loop, out, call, lib, asked>>

NextReader ==
  \/ _warmup_ocr
  \/ \E t \in Threads : EasyCall(t)
  \/ \E t \in Threads : EasyTest(t)
  \/ \E t \in Threads : EasyBuild(t)
  \/ \E t \in Threads : EasyStore(t)
  \/ \E t \in Threads : EasyReturn(t)

SpecReader == Init /\ [][NextReader]_vars

(***************************************************************************)
(* services/validate.py alone: run_pipeline applied to a decoded image, an *)
(* expected type, the thresholds of job_ctx merged over DEFAULTS and a     *)
(* list of earlier fingerprints, and the caller's $set of the verdict on   *)
(* the PROCESSING record of the image.                                     *)
(***************************************************************************)
PipeImages == { i \in Images : ImageOf(i).decodable } \cup {"TILTED"}

PipeTypes == {None, "LABELLING", "LABEL", "AZIMUTH", "INSTALLATION", "tilt"}

PipeThresholds ==
  { DEFAULTS, [DEFAULTS EXCEPT !.blur_min = 40], [DEFAULTS EXCEPT !.dup_hamming_max = 0],
    [DEFAULTS EXCEPT !.label_skew_max = 45] }

PipePhashes ==
  { <<>>, <<phash(ImageOf("AZ"))>>, <<phash(ImageOf("NORTH"))>>,
    <<phash(ImageOf("BLUR")), phash(ImageOf("LABEL"))>>, << <<"1", "0">> >> }

InitPipe ==
  /\ jobs = <<>>
  /\ photos = <<>>
  /\ store = <<>>
  /\ procs = [p \in Procs |-> Idle]
  /\ loop = 0
  /\ out = NoMsg
  /\ lib = NoLib
  /\ asked = <<>>
  /\ reader = NoReader
  /\ call \in { [NoCall EXCEPT !.img = i, !.expected = e, !.th = t, !.existing = x] :
                  i \in PipeImages, e \in PipeTypes, t \in PipeThresholds,
                  x \in PipePhashes }

PipeCall ==
  /\ call.result = NoResult
  /\ call' = [call EXCEPT !.result = run_pipeline(ImageOf(call.img), call.expected,
                                                   call.th, call.existing)]
  /\ UNCHANGED <<jobs, photos, store, procs, loop, out, lib, asked, reader>>

PipeStore ==
  /\ call.result # NoResult
  /\ photos = <<>>
  /\ photos' = <<VerdictPhoto(ProcessingPhoto(0, Upper(OrLabelling(call.expected)), 0),
                              call.result, ResultType(call.result, call.expected))>>
  /\ UNCHANGED <<jobs, store, procs, loop, out, call, lib, asked, reader>>

NextPipe == PipeCall \/ PipeStore

SpecPipe == InitPipe /\ [][NextPipe]_vars

(***************************************************************************)
(* services/ocr.py alone: extract_label_fields and extract_azimuth applied *)
(* to a recognised text.  The texts are built from the parts the regular   *)
(* expressions look for: a label, a gap, a value, what follows it.         *)
(***************************************************************************)
RECURSIVE Join(_, _)
Join(parts, sep) ==
  IF parts = <<>> THEN <<>>
  ELSE IF Len(parts) = 1 THEN Head(parts)
  ELSE Head(parts) \o sep \o Join(Tail(parts), sep)

(* a MAC label, a gap, six octets with a separator, the rest of the text *)
MacLabels ==
  { <<"M", "A", "C">>,
    <<"M", "A", "C", " ", "I", "D">>,
    <<"m", "a", "c">>,
    <<"W", "I", "F", "I", " ", "M", "A", "C">>,
    <<"W", "L", "A", "N", " ", "M", "A", "C">>,
    <<"L", "A", "N", " ", "M", "A", "C">>,
    <<"E", "T", "H", "E", "R", "N", "E", "T", " ", "M", "A", "C">>,
    <<"E", "T", "H", " ", "M", "A", "C">> }

MacGaps == { <<":", " ">>,
            <<" ">>,
            <<":">>,
            <<"-">> }

MacOctets ==
  { <<<<"C", "C">>, <<"5", "4">>, <<"F", "E">>, <<"E", "3">>, <<"2", "6">>, <<"F", "8">>>>,
    <<<<"0", "0">>, <<"1", "a">>, <<"2", "b">>, <<"3", "c">>, <<"4", "d">>, <<"5", "e">>>>,
    <<<<"A", "B">>, <<"C", "D">>, <<"E", "F">>, <<"A", "B">>, <<"C", "D">>, <<"E", "F">>>> }

MacSeps == { <<":">>, <<"-">>, <<".">>, <<>> }

MacTails == { <<>>,
             <<" ", "A", "B">>,
             <<"\n", "S", "/", "N", ":", " ", "A", "B", "C", "D", "1", "2", "3", "4", "E", "F">> }

MacText(label, gap, octets, sep, tail) == label \o gap \o Join(octets, sep) \o tail

MacTexts ==
  { MacText(l, g, o, s, tl) :
      l \in MacLabels, g \in MacGaps, o \in MacOctets, s \in MacSeps, tl \in MacTails }

(* a MAC whose characters the recognition confused: glyph[1] read where
   glyph[2] is printed *)
Glyphs ==
  { <<"O", "0">>, <<"Q", "0">>, <<"I", "1">>, <<"L", "1">>, <<"S", "5">>, <<"B", "8">>,
    <<"Z", "2">> }

PrintedMacs ==
  { <<<<"C", "C">>, <<"5", "4">>, <<"F", "E">>, <<"E", "3">>, <<"2", "6">>, <<"F", "8">>>>,
    <<<<"C", "C">>, <<"5", "4">>, <<"F", "E">>, <<"1", "0">>, <<"2", "6">>, <<"F", "8">>>> }

Confuse(t, glyph) == [i \in 1..Len(t) |-> IF t[i] = glyph[2] THEN glyph[1] ELSE t[i]]

ConfusedText(glyph, octets, sep) ==
  <<"M", "A", "C", " ">> \o Confuse(Join(octets, sep), glyph)

ConfusedTexts ==
  { ConfusedText(g, o, s) : g \in Glyphs, o \in PrintedMacs, s \in {<<":">>, <<"-">>} }

(* six octets on a line that contains EAN, and no other MAC-shaped text *)
EanHeads ==
  { <<"E", "A", "N", " ">>,
    <<"E", "A", "N", ":", " ">>,
    <<"e", "a", "n", " ">>,
    <<"B", "a", "r", "c", "o", "d", "e", " ", "E", "A", "N", "1", "3", " ">>,
    <<"E", "A", "N", " ", "8", "9", "0", " ", "M", "A", "C", ":", " ">> }

EanTails == { <<>>,
             <<"\n", "M", "O", "D", "E", "L", " ", "X", "1">> }

EanText(head, octets, sep, tail) == head \o Join(octets, sep) \o tail

EanTexts ==
  { EanText(h, o, s, tl) : h \in EanHeads, o \in MacOctets, s \in MacSeps, tl \in EanTails }

(* an RSN label, a gap, a token of 6 to 24 characters, the rest of the text *)
RsnLabels ==
  { <<"R", "S", "N">>,
    <<"S", "/", "N">>,
    <<"S", "E", "R", "I", "A", "L">>,
    <<"S", "R", "N">>,
    <<"A", "S", "N">>,
    <<"s", "/", "n">> }

RsnGaps == { <<":", " ">>,
            <<" ">>,
            <<"#">> }

RsnBase ==
  <<"A", "1", "B", "2", "C", "3", "D", "4", "E", "5", "F", "6", "G", "7", "H", "8", "I", "9", "J", "0", "K", "1", "L", "2">>

RsnLengths == 6..24

RsnTails == { <<>>,
             <<" ", "1", "2", "3", "4", "5", "6", "7", "8", "9", "0", "1", "2", "3">> }

RsnText(label, gap, n, tail) == label \o gap \o SubSeq(RsnBase, 1, n) \o tail

RsnTexts ==
  { RsnText(l, g, n, tl) : l \in RsnLabels, g \in RsnGaps, n \in RsnLengths, tl \in RsnTails }

(* texts without a label: one token, or two with a space between them *)
TokenPool ==
  { <<"I", "N", "D", "I", "A">>,
    <<"W", "A", "R", "R", "A", "N", "T", "Y">>,
    <<"M", "O", "D", "E", "L">>,
    <<"M", "A", "N", "U", "F", "A", "C", "T", "U", "R", "E", "D">>,
    <<"A", "B", "C", "1", "2", "3", "4", "5">>,
    <<"X", "Y", "1", "2", "3", "4", "5", "6", "7">>,
    <<"A", "B", "1", "2", "3", "4", "5", "6", "7", "8">>,
    <<"C", "D", "1", "2", "3", "4", "5", "6", "7", "8">>,
    <<"A", "B", "C", "D", "1", "2", "3">>,
    <<"A", "B", "1", "2", "C", "D", "E", "F">>,
    <<"M", "O", "D", "E", "L", "1", "2", "3">>,
    <<"1", "2", "3", "4", "5", "6", "7", "8">>,
    <<"A", "1", "B", "2", "C", "3", "D", "4", "E", "5", "F", "6", "G", "7", "H", "8", "I", "9", "J", "0", "K", "1", "L", "2", "M", "3", "N", "4">> }

TokenTexts == TokenPool \cup { x \o <<" ">> \o y : x, y \in TokenPool }

(* compass readings: a number, a degree mark, a direction *)
AngleHeads == { <<>>,
               <<"R", "e", "a", "d", "i", "n", "g", ":", " ">> }

AngleNums ==
  { <<"0">>,
    <<"7">>,
    <<"4", "5">>,
    <<"1", "2", "3">>,
    <<"3", "6", "0">>,
    <<"3", "6", "1">>,
    <<"4", "0", "0">>,
    <<"1", "2", "3", "4">> }

AngleMarks == { <<>>,
               <<" ">>,
               <<"°">>,
               <<"°", " ">>,
               <<" ", "°", " ">>,
               <<" ", "d", "e", "g">> }

AngleDirs == { <<>>,
              <<"N">>,
              <<"N", "E">>,
              <<"s", "w">>,
              <<"E", "A", "S", "T">> }

AngleText(head, num, mark, dir) == head \o num \o mark \o dir

Readings ==
  { <<"1", "0">>,
    <<"2", "0", " ", "N">>,
    <<"4", "0", "0", " ", "E">>,
    <<"3", "6", "1">>,
    <<"5", "°", "S">>,
    <<"9", "0", " ", "d", "e", "g">> }

AngleTexts ==
  { AngleText(h, n, m, d) : h \in AngleHeads, n \in AngleNums, m \in AngleMarks, d \in AngleDirs }
    \cup { x \o <<",", " ">> \o y : x, y \in Readings }

OcrTexts == MacTexts \cup ConfusedTexts \cup EanTexts \cup RsnTexts \cup TokenTexts \cup AngleTexts

InitOcr ==
  /\ jobs = <<>>
  /\ photos = <<>>
  /\ store = <<>>
  /\ procs = [p \in Procs |-> Idle]
  /\ loop = 0
  /\ out = NoMsg
  /\ call = NoCall
  /\ asked = <<>>
  /\ reader = NoReader
  /\ lib \in { [NoLib EXCEPT !.text = t] : t \in OcrTexts }

CallLabelFields ==
  /\ "extract_label_fields" \notin lib.ran
  /\ lib' = [lib EXCEPT !.ran = @ \cup {"extract_label_fields"},
                        !.macId = extract_label_fields(lib.text).macId,
                        !.rsn = extract_label_fields(lib.text).rsn]
  /\ UNCHANGED <<jobs, photos, store, procs, loop, out, call, asked, reader>>

CallAzimuth ==
  /\ "extract_azimuth" \notin lib.ran
  /\ lib' = [lib EXCEPT !.ran = @ \cup {"extract_azimuth"},
                        !.deg = extract_azimuth(lib.text).azimuthDeg,
                        !.dir = extract_azimuth(lib.text).azimuthDir]
  /\ UNCHANGED <<jobs, photos, store, procs, loop, out, call, asked, reader>>

NextOcr == CallLabelFields \/ CallAzimuth

SpecOcr == InitOcr /\ [][NextOcr]_vars

(***************************************************************************)
(* services/dedupe.py alone: hamming applied to two fingerprints of the    *)
(* length phash produces.                                                  *)
(***************************************************************************)
Fingerprints ==
  { phash([ones |-> n]) : n \in {0, 1, 5, 32, 62, 64} }
    \cup { [i \in 1..HashLen |-> IF i % m = r THEN "1" ELSE "0"] : m \in {2, 3}, r \in {0, 1} }
    \cup { [i \in 1..HashLen |-> IF i > n THEN "1" ELSE "0"] : n \in {7, 40} }

InitHash ==
  /\ jobs = <<>>
  /\ photos = <<>>
  /\ store = <<>>
  /\ procs = [p \in Procs |-> Idle]
  /\ loop = 0
  /\ out = NoMsg
  /\ call = NoCall
  /\ asked = <<>>
  /\ reader = NoReader
  /\ lib \in { [NoLib EXCEPT !.a = x, !.b = y] : x, y \in Fingerprints }

CallHamming ==
  /\ "hamming" \notin lib.ran
  /\ lib' = [lib EXCEPT !.ran = @ \cup {"hamming"}, !.dist = hamming(lib.a, lib.b)]
  /\ UNCHANGED <<jobs, photos, store, procs, loop, out, call, asked, reader>>

NextHash == CallHamming

SpecHash == InitHash /\ [][NextHash]_vars

(***************************************************************************)
(* Vocabulary of the properties.                                           *)
(***************************************************************************)
JobIds == 1..Len(jobs)

(* process p takes the step: every action rewrites the record of its process *)
Steps(p) == procs'[p] # procs[p]

Rank(status) ==
  CASE status = "PENDING" -> 0
    [] status = "IN_PROGRESS" -> 1
    [] status = "DONE" -> 2

CursorsUnchanged ==
  /\ Len(jobs') = Len(jobs)
  /\ \A j \in JobIds : jobs'[j].currentIndex = jobs[j].currentIndex

StatusesUnchanged ==
  /\ Len(jobs') = Len(jobs)
  /\ \A j \in JobIds : jobs'[j].status = jobs[j].status

(* C1: in every reachable state every job has 0 <= currentIndex <= len(requiredTypes) *)
C1_CursorInBounds ==
  \A j \in JobIds :
    0 <= jobs[j].currentIndex /\ jobs[j].currentIndex <= Len(jobs[j].requiredTypes)

(* C2: in every reachable state a job is DONE iff currentIndex = len(requiredTypes) *)
C2_DoneIffComplete ==
  \A j \in JobIds :
    (jobs[j].status = "DONE") <=> (jobs[j].currentIndex = Len(jobs[j].requiredTypes))

(* C3: no step moves a job's status backwards along PENDING, IN_PROGRESS, DONE *)
C3_StatusForward ==
  [][\A j \in JobIds : Rank(jobs'[j].status) >= Rank(jobs[j].status)]_vars

(* a webhook call is between its find_one and its status write while a
   background task has already completed the job it found *)
C3_Witness ==
  \E p \in Procs :
    /\ procs[p].pc = "w_mark"
    /\ procs[p].job.status = "IN_PROGRESS"
    /\ jobs[procs[p].jobId].status = "DONE"

(* the task of p evaluates an image that an earlier photo of the same job,
   already verified PASS, was stored with: a second delivery of one message *)
Redelivered(p) ==
  \E k \in 1..Len(photos) :
    /\ k # procs[p].last_photo
    /\ photos[k].jobId = procs[p].jobId
    /\ photos[k].status = "PASS"
    /\ store[photos[k].s3Key].data = procs[p].img

(* C4: with deliveries processed one after the other, the task of a second
   delivery of an image whose first delivery passed leaves currentIndex as it is *)
C4_IdempotentAdvance ==
  [][\A p \in Procs :
       (procs[p].pc \in {"t_upd", "t_inc", "t_reread", "t_compose"}
          /\ Steps(p) /\ Redelivered(p))
       => CursorsUnchanged]_vars

(* C5: the increment of a task whose job is no longer at the index the task
   read changes nothing *)
C5_ConditionalIncrement ==
  [][\A p \in Procs :
       (procs[p].pc = "t_inc" /\ procs'[p].pc = "t_reread"
          /\ jobs[procs[p].jobId].currentIndex # procs[p].job.currentIndex)
       => jobs' = jobs]_vars

(* C6: a task (or debug upload) advances exactly when its verdict is PASS and
   the resolved type is the expected type; the advance adds exactly 1 to
   currentIndex; and when the index it then reads is len(requiredTypes) it
   writes status DONE *)
C6_PassAdvances ==
  [][\A p \in Procs : Steps(p) =>
       LET me == procs[p]
           j == me.jobId
           hit == me.result.status = "PASS" /\ me.expected # None
                    /\ me.result_type = me.expected
       IN /\ (me.pc = "t_upd" /\ procs'[p].pc # "idle")
               => ((procs'[p].pc = "t_inc") <=> hit)
          /\ (me.pc = "d_insert" /\ out'.kind # "error_500")
               => ((procs'[p].pc = "d_inc") <=> hit)
          /\ (me.pc \in {"t_inc", "d_inc"} /\ procs'[p].pc # "idle")
               => jobs' = [jobs EXCEPT ![j].currentIndex = jobs[j].currentIndex + 1]
          /\ (me.pc = "t_compose" /\ procs'[p].pc = "t_notify" /\ hit
                /\ me.job.currentIndex = Len(me.job.requiredTypes))
               => (jobs'[j].status = "DONE" /\ procs'[p].text.kind = "done")
          /\ (me.pc = "d_reread" /\ out'.kind # "error_500"
                /\ jobs[j].currentIndex = Len(jobs[j].requiredTypes))
               => procs'[p].pc = "d_done"
          /\ (me.pc = "d_done" /\ out'.kind # "error_500")
               => jobs'[j].status = "DONE"]_vars

(* requiredTypes = [A, B]: PASS for A, then PASS for B, index 2 and DONE *)
C6_Witness ==
  /\ Len(jobs) = 1
  /\ jobs[1].requiredTypes = <<"INSTALLATION", "CLUTTER">>
  /\ jobs[1].currentIndex = 2
  /\ jobs[1].status = "DONE"
  /\ Len(photos) = 2
  /\ photos[1].type = "INSTALLATION" /\ photos[1].status = "PASS"
  /\ photos[2].type = "CLUTTER" /\ photos[2].status = "PASS"
  /\ out.kind = "done"

(* C7: no step of a task or debug upload whose verdict is FAIL changes a
   currentIndex or a status, and its notification is the retake message with
   the prompt of the expected type and the verdict's reasons *)
C7_FailKeepsCursor ==
  [][\A p \in Procs : (Steps(p) /\ procs[p].result.status = "FAIL") =>
       /\ CursorsUnchanged
       /\ StatusesUnchanged
       /\ (procs[p].pc = "t_notify" /\ out' # NoMsg)
            => /\ out'.kind = "retake"
               /\ procs[p].result.reason # <<>>
               /\ out'.reasons = procs[p].result.reason
               /\ procs[p].expected # None => out'.ptype = procs[p].expected]_vars

C7_Witness ==
  /\ out.kind = "retake"
  /\ out.ptype = "AZIMUTH"
  /\ out.reasons = <<"Could not read compass/azimuth value">>
  /\ \E j \in JobIds : jobs[j].currentIndex = 0 /\ jobs[j].status = "IN_PROGRESS"
  /\ \E k \in 1..Len(photos) : photos[k].status = "FAIL"

(* C8: a PASS verdict whose resolved type is not the (existing) expected type
   is written to the photo record, changes no currentIndex, and its
   notification carries the prompt of the same expected type *)
C8_PassOtherTypeStays ==
  [][\A p \in Procs :
       (Steps(p) /\ procs[p].result.status = "PASS" /\ procs[p].expected # None
          /\ procs[p].result_type # procs[p].expected) =>
       /\ CursorsUnchanged
       /\ (procs[p].pc = "t_upd" /\ procs'[p].pc # "idle")
            => /\ procs[p].last_photo \in 1..Len(photos)
               /\ photos'[procs[p].last_photo].status = "PASS"
               /\ photos'[procs[p].last_photo].type = procs[p].result_type
       /\ (procs[p].pc = "d_insert" /\ out'.kind # "error_500")
            => /\ Len(photos') = Len(photos) + 1
               /\ photos'[Len(photos')].status = "PASS"
               /\ photos'[Len(photos')].type = procs[p].result_type
       /\ (procs[p].pc = "t_notify" /\ out' # NoMsg)
            => (out'.kind = "next" /\ out'.ptype = procs[p].expected)]_vars

C8_Witness ==
  /\ out.kind = "next"
  /\ out.ptype = "tilt"
  /\ \E j \in JobIds : jobs[j].requiredTypes = <<"tilt">> /\ jobs[j].currentIndex = 0
  /\ \E k \in 1..Len(photos) : photos[k].status = "PASS" /\ photos[k].type = "TILT"

(* C9: the webhook writes IN_PROGRESS to the PENDING job it found, in the
   step before any media handling, and no step of a webhook call changes a
   currentIndex or a requiredTypes list or, in that step, a photo record *)
C9_FirstContact ==
  [][\A p \in Procs :
       (Steps(p) /\ procs[p].pc \in {"w_find", "w_mark", "w_fetch"}) =>
       /\ CursorsUnchanged
       /\ \A j \in JobIds : jobs'[j].requiredTypes = jobs[j].requiredTypes
       /\ procs[p].pc = "w_mark"
            => /\ photos' = photos
               /\ store' = store
               /\ jobs[procs[p].jobId].status = "PENDING"
                    => jobs'[procs[p].jobId].status = "IN_PROGRESS"]_vars

C9_Witness ==
  /\ out.kind = "prompt"
  /\ photos = <<>>
  /\ \E j \in JobIds :
       /\ jobs[j].status = "IN_PROGRESS"
       /\ jobs[j].currentIndex = 0
       /\ jobs[j].requiredTypes # <<>>
       /\ out.ptype = jobs[j].requiredTypes[1]

(* the sender has no job in status PENDING or IN_PROGRESS *)
NoActiveJob(phone) ==
  \A j \in JobIds : jobs[j].workerPhone = phone => jobs[j].status = "DONE"

(* C10: when the sender has no PENDING or IN_PROGRESS job, the webhook's
   find step answers no-active-assignment, ends the request without a task
   and changes no job, no photo record and no stored bytes *)
C10_NoActiveJob ==
  [][\A p \in Procs :
       (Steps(p) /\ procs[p].pc = "w_find" /\ NoActiveJob(procs[p].from)) =>
       /\ out'.kind = "no_active"
       /\ procs'[p] = Idle
       /\ \A q \in Procs : q # p => procs'[q] = procs[q]
       /\ jobs' = jobs
       /\ photos' = photos
       /\ store' = store]_vars

C10_Witness ==
  /\ out.kind = "no_active"
  /\ jobs # <<>>
  /\ \A j \in JobIds : jobs[j].status = "DONE"

(* only the status of the job that process p found may change, and only from
   PENDING to IN_PROGRESS *)
OnlyMarks(p) ==
  /\ Len(jobs') = Len(jobs)
  /\ \A j \in JobIds :
       \/ jobs'[j] = jobs[j]
       \/ /\ j = procs[p].jobId
          /\ jobs[j].status = "PENDING"
          /\ jobs'[j] = [jobs[j] EXCEPT !.status = "IN_PROGRESS"]

(* C11: every step of a webhook call with zero media for an active job
   inserts no photo record, stores no bytes, starts no background task and
   writes to a job at most PENDING -> IN_PROGRESS; the call ends with the
   prompt of requiredTypes[currentIndex] of the job it found *)
C11_TextOnlyPrompt ==
  [][\A p \in Procs :
       (Steps(p) /\ procs[p].media = "none" /\ out'.kind # "no_active") =>
       LET job == procs'[p].job
           found == IF procs[p].pc = "w_mark" THEN procs[p].job ELSE job
           idx == found.currentIndex
       IN /\ photos' = photos
          /\ store' = store
          /\ OnlyMarks(p)
          /\ CursorsUnchanged
          /\ procs'[p].pc \in {"w_mark", "idle"}
          /\ procs[p].pc = "w_mark"
               => /\ procs'[p] = Idle
                  /\ out'.kind = "prompt"
                  /\ idx < Len(found.requiredTypes)
                       => out'.ptype = found.requiredTypes[idx + 1]]_vars

(* a text-only message after the first of two photos passed: the prompt is
   the second type, and nothing but the one photo is recorded *)
C11_Witness ==
  /\ out.kind = "prompt"
  /\ out.ptype = "CLUTTER"
  /\ Len(photos) = 1
  /\ Len(store) = 1
  /\ \A p \in Procs : procs[p].pc = "idle"
  /\ \E j \in JobIds :
       /\ jobs[j].requiredTypes = <<"INSTALLATION", "CLUTTER">>
       /\ jobs[j].currentIndex = 1
       /\ jobs[j].status = "IN_PROGRESS"

(* C12: every photo record in status PROCESSING eventually has another status *)
C12_ProcessingEnds ==
  \A k \in 1..MaxPhotos :
    (Len(photos) >= k /\ photos[k].status = "PROCESSING")
      ~> (Len(photos) >= k /\ photos[k].status # "PROCESSING")

(* C13: a photo record whose status is PASS or FAIL is never written again *)
C13_VerdictWrittenOnce ==
  [][\A k \in 1..Len(photos) :
       photos[k].status \in {"PASS", "FAIL"} => photos'[k] = photos[k]]_vars

(* the background task of process p was added and has not ended *)
InTask(p) ==
  procs[p].pc \in {"t_load", "t_pipe", "t_promote", "t_last", "t_upd", "t_inc",
                   "t_reread", "t_compose", "t_notify"}

(* C14: no two background tasks of the same job are in flight together *)
C14_OneTaskPerJob ==
  \A p, q \in Procs :
    (p # q /\ InTask(p) /\ InTask(q)) => procs[p].jobId # procs[q].jobId

(* C15: what run_pipeline returned differs from what it returns for the same
   image, expected type and thresholds with any other list of earlier
   fingerprints in checks.isDuplicate at most: same status, same reasons *)
C15_DuplicateAdvisory ==
  call.result # NoResult =>
    \A x \in PipePhashes :
      LET r == run_pipeline(ImageOf(call.img), call.expected, call.th, x)
      IN /\ r.status = call.result.status
         /\ r.reason = call.result.reason
         /\ [r EXCEPT !.checks.isDuplicate = call.result.checks.isDuplicate] = call.result

(* a call that flagged a duplicate and returned PASS, where another list of
   earlier fingerprints gives no flag *)
C15_Witness ==
  /\ call.result.status = "PASS"
  /\ call.result.checks.isDuplicate
  /\ \E x \in PipePhashes :
       ~run_pipeline(ImageOf(call.img), call.expected, call.th, x).checks.isDuplicate

(* a photo record of job jobId, other than a record still in PROCESSING,
   with the type ptype and a fingerprint close to h *)
CloseEarlier(jobId, ptype, h) ==
  \E k \in 1..Len(photos) :
    /\ photos[k].jobId = jobId
    /\ photos[k].status \in {"PASS", "FAIL"}
    /\ photos[k].type = ptype
    /\ hamming(h, photos[k].phash) <= DEFAULTS.dup_hamming_max

(* C16: the verdict a task computes has checks.isDuplicate true iff a PASS or
   FAIL photo of the same job with the verdict's resolved type has a
   fingerprint within dup_hamming_max of the new one *)
C16_DuplicateIff ==
  [][\A p \in Procs :
       (procs[p].pc = "t_pipe" /\ procs'[p].pc \in {"t_promote", "t_last"}) =>
       (procs'[p].result.checks.isDuplicate
          <=> CloseEarlier(procs[p].jobId, procs'[p].result_type,
                           procs'[p].result.phash))]_vars

(* C17: the verdict run_pipeline returned is PASS when its reason list is
   empty and FAIL otherwise, and so is every photo record the verdict was
   written to *)
C17_PassIffNoReasons ==
  /\ call.result # NoResult =>
       /\ call.result.status \in {"PASS", "FAIL"}
       /\ call.result.status = "PASS" <=> call.result.reason = <<>>
  /\ \A k \in 1..Len(photos) :
       /\ photos[k].status \in {"PASS", "FAIL"}
       /\ photos[k].status = "PASS" => photos[k].reason = <<>>
       /\ photos[k].status = "FAIL" => photos[k].reason # <<>>

(* a FAIL record with two reasons: a blurry label photo *)
C17_Witness ==
  /\ photos # <<>>
  /\ photos[1].status = "FAIL"
  /\ photos[1].reason = <<"Image is blurry", "Could not read MAC/RSN from label">>
  /\ call.result.status = "FAIL"

PromotedUnchanged ==
  /\ Len(jobs') = Len(jobs)
  /\ \A j \in JobIds :
       /\ jobs'[j].macId = jobs[j].macId
       /\ jobs'[j].rsnId = jobs[j].rsnId
       /\ jobs'[j].azimuthDeg = jobs[j].azimuthDeg

(* C18: no step of a task or debug upload whose verdict is FAIL changes the
   macId, rsnId or azimuthDeg of a job *)
C18_PromoteOnlyOnPass ==
  [][\A p \in Procs :
       (Steps(p) /\ procs[p].result.status = "FAIL") => PromotedUnchanged]_vars

(* the type at the cursor of the job document that process p read *)
FoundType(p) ==
  LET job == procs[p].job
  IN IF job.currentIndex < Len(job.requiredTypes)
     THEN job.requiredTypes[job.currentIndex + 1] ELSE None

(* C19: a webhook call for an active job whose media message has no
   MediaUrl0 or a content type that is not an image, or whose download
   fails, inserts no photo record, stores no bytes, starts no background task
   (so the pipeline never runs), leaves every currentIndex as it is, and
   ends with a reply that prompts for the expected type of the job it found *)
C19_InvalidMediaRejected ==
  [][\A p \in Procs :
       (Steps(p) /\ out'.kind # "no_active"
          /\ (procs[p].media \in {"nourl", "nonimage"} \/ out'.kind = "download_failed")) =>
       /\ photos' = photos
       /\ store' = store
       /\ OnlyMarks(p)
       /\ CursorsUnchanged
       /\ procs'[p].pc \in {"w_mark", "idle"}
       /\ (procs[p].pc = "w_mark")
            => /\ procs'[p] = Idle
               /\ out'.kind = "invalid_image"
       /\ (procs[p].pc = "w_fetch") => procs'[p] = Idle
       /\ (procs'[p] = Idle /\ FoundType(p) # None) => out'.ptype = FoundType(p)]_vars

(* a failed download for a job expecting AZIMUTH: re-prompt, nothing recorded *)
C19_Witness ==
  /\ out.kind = "download_failed"
  /\ out.ptype = "AZIMUTH"
  /\ photos = <<>>
  /\ store = <<>>
  /\ \A p \in Procs : procs[p].pc = "idle"
  /\ \E j \in JobIds : jobs[j].currentIndex = 0 /\ jobs[j].status = "IN_PROGRESS"

(* C20: the task of an accepted image whose bytes cannot be decoded ends
   without a verdict, leaves every job as it is, and sends the worker a
   message that prompts again for the expected type *)
C20_DecodeErrorReprompts ==
  [][\A p \in Procs :
       (Steps(p) /\ procs[p].pc = "t_pipe" /\ ~ImageOf(procs[p].img).decodable) =>
       /\ procs'[p].result = NoResult
       /\ jobs' = jobs
       /\ procs'[p] = Idle
            => /\ out'.kind \in {"prompt", "retake", "invalid_image", "download_failed"}
               /\ procs[p].expected # None => out'.ptype = procs[p].expected]_vars

(* the octets in upper case *)
UpperOctets(octets) == [k \in 1..Len(octets) |-> UpperText(octets[k])]

Ran(f) == f \in lib.ran

(* C21: for a text that is a MAC label, a gap and six hex octets written
   with ':', '-' or '.' between them or as twelve bare characters, on a line
   without EAN, extract_label_fields returns macId as the six octets in upper
   case joined by ':'; "MAC: CC:54:FE:E3:26:F8" and "MAC CC54FEE326F8" both
   give "CC:54:FE:E3:26:F8" *)
C21_KeywordMacNormalized ==
  Ran("extract_label_fields") =>
    \A l \in MacLabels, g \in MacGaps, o \in MacOctets, s \in MacSeps, tl \in MacTails :
      lib.text = MacText(l, g, o, s, tl) => lib.macId = Join(UpperOctets(o), <<":">>)

C21_Witness ==
  /\ Ran("extract_label_fields")
  /\ lib.text = <<"M", "A", "C", " ", "C", "C", "5", "4", "F", "E", "E", "3", "2", "6", "F", "8">>
  /\ lib.macId = <<"C", "C", ":", "5", "4", ":", "F", "E", ":", "E", "3", ":", "2", "6", ":",
                   "F", "8">>

(* C22: a MAC in which a printed digit was read as its look-alike (O or Q
   for 0, I or L for 1, S for 5, B for 8, Z for 2) is extracted as printed;
   "MAC CC:54:FE:E3:Z6:F8" gives "CC:54:FE:E3:26:F8" *)
C22_ConfusableGlyphsMapped ==
  Ran("extract_label_fields") =>
    \A g \in Glyphs, o \in PrintedMacs, s \in {<<":">>, <<"-">>} :
      lib.text = ConfusedText(g, o, s) => lib.macId = Join(o, <<":">>)

(* C23: when the only MAC-shaped characters of a text are on a line that
   contains EAN, extract_label_fields returns no macId *)
C23_NoMacFromEanLine ==
  Ran("extract_label_fields") =>
    \A h \in EanHeads, o \in MacOctets, s \in MacSeps, tl \in EanTails :
      lib.text = EanText(h, o, s, tl) => lib.macId = <<>>

(* C24: for a text that is one of the labels RSN, S/N, SERIAL, SRN, ASN, a
   gap and a token of 6 to 24 alphanumerics, with or without an unlabeled
   token after it, the rsn returned is the labeled token in upper case, for
   every token length from 6 to 24 *)
C24_LabeledRsnPreferred ==
  Ran("extract_label_fields") =>
    \A l \in RsnLabels, g \in RsnGaps, n \in RsnLengths, tl \in RsnTails :
      lib.text = RsnText(l, g, n, tl) => lib.rsn = SubSeq(RsnBase, 1, n)

(* a token the unlabeled search may return: 8 to 24 characters, at least 3
   digits, not a stopword *)
Qualifies(tok) ==
  Len(tok) >= 8 /\ Len(tok) <= 24 /\ DigitCount(tok) >= 3 /\ tok \notin RSN_STOPWORDS

(* more digits, or as many digits and longer *)
Preferred(x, y) ==
  DigitCount(x) > DigitCount(y) \/ (DigitCount(x) = DigitCount(y) /\ Len(x) > Len(y))

(* the rsn is one of the qualifying tokens and none of them is preferred to
   it; absent when no token qualifies *)
BestOf(tokens) ==
  IF \A x \in tokens : ~Qualifies(x) THEN lib.rsn = <<>>
  ELSE /\ lib.rsn \in tokens /\ Qualifies(lib.rsn)
       /\ \A x \in tokens : Qualifies(x) => ~Preferred(x, lib.rsn)

(* C25: for a text of one or two tokens and no label, the rsn returned is
   the token of 8 to 24 characters with at least 3 digits, not a stopword,
   that has the most digits and then the greatest length; absent when no
   token qualifies *)
C25_UnlabeledRsnBest ==
  Ran("extract_label_fields") =>
    \A x \in TokenPool, y \in TokenPool :
      /\ lib.text = x => BestOf({x})
      /\ lib.text = x \o <<" ">> \o y => BestOf({x, y})

(* the least element of a set of positions *)
First(S) == CHOOSE k \in S : \A m \in S : k <= m

(* C26: extract_angle returns a degree value only from 0 to 360: that of the
   first match in range with a compass direction, with the direction in
   upper case, else that of the first match in range, without direction,
   else nothing; a reading of one number and one direction gives both;
   "Reading: 123° NE" gives (123, NE), "45 deg" (45, absent), "400°" absent *)
C26_AngleInRangeDirectionFirst ==
  Ran("extract_azimuth") =>
    LET ms == AngleMatches(lib.text, 1)
        ok == { k \in 1..Len(ms) : ms[k].deg >= 0 /\ ms[k].deg <= 360 }
        withDir == { k \in ok : ms[k].dir # <<>> }
    IN /\ lib.deg = NoneNum \/ lib.deg \in 0..360
       /\ IF withDir # {}
          THEN lib.deg = ms[First(withDir)].deg /\ lib.dir = ms[First(withDir)].dir
          ELSE IF ok # {} THEN lib.deg = ms[First(ok)].deg /\ lib.dir = <<>>
          ELSE lib.deg = NoneNum /\ lib.dir = <<>>
       /\ \A h \in AngleHeads, n \in AngleNums, m \in AngleMarks \ {<<" ", "d", "e", "g">>},
             d \in {<<>>, <<"N">>, <<"N", "E">>, <<"s", "w">>} :
            lib.text = AngleText(h, n, m, d) =>
              IF Len(n) <= 3 /\ IntOf(n) <= 360
              THEN lib.deg = IntOf(n) /\ lib.dir = UpperText(d)
              ELSE lib.deg = NoneNum /\ lib.dir = <<>>
       /\ lib.text = <<"R", "e", "a", "d", "i", "n", "g", ":", " ", "1", "2", "3", "°", " ", "N", "E">>
            => lib.deg = 123 /\ lib.dir = <<"N", "E">>
       /\ lib.text = <<"4", "5", " ", "d", "e", "g">> => lib.deg = 45 /\ lib.dir = <<>>
       /\ lib.text = <<"4", "0", "0", "°">> => lib.deg = NoneNum /\ lib.dir = <<>>

C26_Witness ==
  /\ Ran("extract_azimuth")
  /\ lib.text = <<"1", "0", ",", " ", "2", "0", " ", "N">>
  /\ lib.deg = 20 /\ lib.dir = <<"N">>

(* C27: for fingerprints a and b of the length phash produces, hamming(a, b)
   is hamming(b, a), it is 0 when a = b, and it lies between 0 and 64 *)
C27_HammingMetric ==
  Ran("hamming") =>
    /\ Len(lib.a) = HashLen /\ Len(lib.b) = HashLen
    /\ lib.dist = hamming(lib.b, lib.a)
    /\ lib.a = lib.b => lib.dist = 0
    /\ lib.dist >= 0 /\ lib.dist <= HashLen

C27_Witness ==
  /\ Ran("hamming")
  /\ lib.a # lib.b
  /\ lib.dist = HashLen

(* C28: the thresholds run_pipeline uses for a photo that came through the
   webhook and its background task are those the job's creation asked for,
   with the defaults for the thresholds it did not mention *)
C28_JobThresholdsUsed ==
  [][\A p \in Procs :
       procs[p].pc = "t_pipe" /\ procs'[p].pc \in {"t_promote", "t_last"}
         => procs'[p].result =
              run_pipeline(ImageOf(procs[p].img), procs[p].expected,
                           Merged(DEFAULTS, asked[procs[p].jobId]),
                           prev_phashes(procs[p].jobId, procs[p].expected))]_vars

(* C29: the photo update of a background task changes no record but the one
   its webhook call inserted, the record of the bytes the task evaluated *)
C29_VerdictOnOwnRecord ==
  [][\A p \in Procs :
       procs[p].pc = "t_upd" /\ Steps(p)
         => \A k \in 1..Len(photos) :
              photos'[k] # photos[k]
                => /\ photos[k].jobId = procs[p].jobId
                   /\ store[photos[k].s3Key].data = procs[p].img]_vars

(* C30: when the webhook call of an image message schedules its background
   task, and only then, it answers with the acknowledgment, and the bytes
   have been stored and a record of the job with status PROCESSING that
   points to them has been inserted; when storing or inserting fails the
   call ends with no task; either way no job changes in that step *)
C30_SavedBeforeTaskAndAck ==
  [][\A p \in Procs :
       procs[p].pc = "w_fetch" /\ Steps(p)
         => /\ jobs' = jobs
            /\ (out'.kind = "ack") = (procs'[p].pc = "t_load")
            /\ IF procs'[p].pc = "t_load"
               THEN /\ store' = Append(store, [jobId |-> procs[p].jobId,
                                               data |-> procs'[p].img])
                    /\ Len(photos') = Len(photos) + 1
                    /\ SubSeq(photos', 1, Len(photos)) = photos
                    /\ photos'[Len(photos')].status = "PROCESSING"
                    /\ photos'[Len(photos')].jobId = procs[p].jobId
                    /\ photos'[Len(photos')].s3Key = Len(store')
               ELSE procs'[p] = Idle /\ photos' = photos]_vars

C30_Witness ==
  /\ out.kind = "ack"
  /\ \E p \in Procs :
       /\ procs[p].pc = "t_load"
       /\ photos # <<>>
       /\ photos[Len(photos)].status = "PROCESSING"
       /\ photos[Len(photos)].jobId = procs[p].jobId
       /\ store[photos[Len(photos)].s3Key].data = procs[p].img


(* the reason is in the verdict run_pipeline returned *)
Gives(reason) ==
  \E k \in 1..Len(call.result.reason) : call.result.reason[k] = reason

(* the image of the call is blurry under the thresholds of the call *)
Blurry == ImageOf(call.img).blur < call.th.blur_min

(* what field extraction reads from the image for the resolved type *)
Extracted ==
  IF call.result.type \in LABEL_TYPES THEN ImageOf(call.img).label
  ELSE IF call.result.type \in AZIMUTH_TYPES THEN ImageOf(call.img).az
  ELSE NoFields

(* C31: a verdict for a blurry photo carries the blurry reason and still the
   fields that extraction reads from the photo; for an azimuth type with no
   degrees to read it carries the unreadable-azimuth reason as well, and for
   a label type the unreadable-identifiers reason only when neither MAC nor
   RSN can be read *)
C31_BlurKeepsTypeChecks ==
  (call.result # NoResult /\ Blurry) =>
    /\ Gives("Image is blurry")
    /\ call.result.fields = Extracted
    /\ (call.result.type \in AZIMUTH_TYPES /\ Extracted.azimuthDeg = NoneNum)
         => Gives("Could not read compass/azimuth value")
    /\ (call.result.type \in LABEL_TYPES /\ Gives("Could not read MAC/RSN from label"))
         => (~Truthy(Extracted.macId) /\ ~Truthy(Extracted.rsn))

(* an identifier is among the fields of the verdict *)
IdRead == Truthy(call.result.fields.macId) \/ Truthy(call.result.fields.rsn)

(* the measured skew of the image of the call exceeds label_skew_max *)
SkewExceeds ==
  /\ ImageOf(call.img).skew # NoneNum
  /\ ImageOf(call.img).skew > call.th.label_skew_max

(* C32: a verdict for a label type without MAC and RSN is FAIL with the
   unreadable-identifiers reason; it has the too-skewed reason iff the skew
   exceeds label_skew_max and no identifier was read; with an identifier read
   and the skew exceeding, checks.skewWarn is set and there is no skew
   reason; without a skew measurement there is neither reason nor warning *)
C32_LabelSkewAndIds ==
  (call.result # NoResult /\ call.result.type \in LABEL_TYPES) =>
    /\ ~IdRead => /\ call.result.status = "FAIL"
                  /\ Gives("Could not read MAC/RSN from label")
    /\ Gives("Label angle too skewed") <=> (SkewExceeds /\ ~IdRead)
    /\ (SkewExceeds /\ IdRead) => /\ call.result.checks.skewWarn
                                  /\ ~Gives("Label angle too skewed")
    /\ call.result.checks.skewWarn => (SkewExceeds /\ IdRead)
    /\ ImageOf(call.img).skew = NoneNum => /\ ~Gives("Label angle too skewed")
                                           /\ ~call.result.checks.skewWarn

(* a PASS verdict for a sharp label photo with a MAC read and a skew above
   the threshold: the warning only *)
C32_Witness ==
  /\ call.result.type \in LABEL_TYPES
  /\ call.result.status = "PASS"
  /\ SkewExceeds
  /\ IdRead
  /\ call.result.checks.skewWarn

(* C33: a verdict for an azimuth type and a photo that is not blurry has the
   unreadable-azimuth reason iff extraction read no degrees; with degrees
   read, 0 among them, the verdict is PASS *)
C33_AzimuthReasonIffNoDegrees ==
  (call.result # NoResult /\ call.result.type \in AZIMUTH_TYPES /\ ~Blurry) =>
    /\ Gives("Could not read compass/azimuth value")
         <=> ImageOf(call.img).az.azimuthDeg = NoneNum
    /\ ImageOf(call.img).az.azimuthDeg \in 0..360 => call.result.status = "PASS"

(* C34: a verdict for a type that is neither a label type nor an azimuth
   type has empty fields, no skew measurement, no identifiers and no skew
   warning, and is PASS iff the sharpness score is at least blur_min *)
C34_OtherTypesSharpnessOnly ==
  (call.result # NoResult /\ call.result.type \notin LABEL_TYPES \cup AZIMUTH_TYPES) =>
    /\ call.result.fields = NoFields
    /\ call.result.checks.skewDeg = NoneNum
    /\ ~call.result.checks.hasLabelIds
    /\ ~call.result.checks.skewWarn
    /\ call.result.status = "PASS" <=> ImageOf(call.img).blur >= call.th.blur_min
    /\ call.result.status = "FAIL" => call.result.reason = <<"Image is blurry">>

(* a PASS verdict for the type TILT on a photo whose label could be read, and
   whose skew was measurable and above the threshold *)
C34_Witness ==
  /\ call.result.type = "TILT"
  /\ call.result.status = "PASS"
  /\ ImageOf(call.img).label # NoFields
  /\ SkewExceeds


(* a call of task p raised after the verdict was computed: the step from one
   of its database operations or from the notification to the end of the task
   through the except clause, which sends nothing *)
Raised(p) ==
  /\ procs[p].pc \in {"t_promote", "t_last", "t_upd", "t_inc", "t_reread", "t_compose",
                      "t_notify"}
  /\ procs'[p].pc = "idle"
  /\ out' = NoMsg

(* task p has written a part of its verdict: the promoted fields of the job
   or the photo record *)
Applied(p) ==
  \/ /\ HasUpdates(procs[p].result.fields)
     /\ procs[p].pc \in {"t_last", "t_upd", "t_inc", "t_reread", "t_compose", "t_notify"}
  \/ /\ procs[p].last_photo # 0
     /\ procs[p].pc \in {"t_inc", "t_reread", "t_compose", "t_notify"}

(* the cursor increment or the DONE write that the verdict of task p calls
   for has not been made *)
Missing(p) ==
  \/ /\ Advances(procs[p].result, procs[p].expected, procs[p].result_type)
     /\ procs[p].pc \in {"t_promote", "t_last", "t_upd", "t_inc"}
  \/ /\ procs[p].pc = "t_compose"
     /\ procs[p].result.status = "PASS"
     /\ _current_expected_type(procs[p].job) = None

(* C35: when a database write or the notification of a background task
   raises, the task has not written its verdict in part: it is not the case
   that the promoted fields or the photo record hold the verdict while the
   cursor increment or the DONE write the verdict calls for is missing *)
C35_NoPartialVerdict ==
  [][\A p \in Procs : Raised(p) => ~(Applied(p) /\ Missing(p))]_vars


(* C36: no more than one EasyOCR Reader has been constructed, whatever the
   startup warm-up did and however the calls of _easyocr() interleave *)
C36_ReaderBuiltOnce == reader.built <= 1


(* job j has a PASS photo record of the type ptype *)
HasPass(j, ptype) ==
  \E k \in 1..Len(photos) :
    /\ photos[k].jobId = j
    /\ photos[k].status = "PASS"
    /\ photos[k].type = ptype

(* C37: for every job and every position of its requiredTypes below its
   currentIndex there is a PASS photo record of the job with the type at that
   position *)
C37_ChecklistComplete ==
  \A j \in JobIds :
    \A i \in 1..Len(jobs[j].requiredTypes) :
      i <= jobs[j].currentIndex => HasPass(j, jobs[j].requiredTypes[i])


(* C38: the verdict a task computes for an existing expected type has that
   type in upper case as its resolved type; a task with a PASS verdict goes
   on to the increment, which adds exactly 1 to currentIndex, when its
   expected type is written in upper case, its resolved type then being the
   expected one, and does not go on to the increment when its expected type
   is not written in upper case *)
C38_UpperCaseAdvance ==
  [][\A p \in Procs : Steps(p) =>
       LET me == procs[p]
       IN /\ (me.pc = "t_pipe" /\ procs'[p].pc \in {"t_promote", "t_last"}
                /\ me.expected # None)
               => /\ procs'[p].result.type = Upper(me.expected)
                  /\ procs'[p].result_type = Upper(me.expected)
          /\ (me.pc = "t_upd" /\ procs'[p].pc # "idle" /\ me.expected # None
                /\ me.result.status = "PASS")
               => IF me.expected = Upper(me.expected)
                  THEN procs'[p].pc = "t_inc" /\ me.result_type = me.expected
                  ELSE procs'[p].pc = "t_compose"
          /\ (me.pc = "t_inc" /\ procs'[p].pc # "idle")
               => /\ me.expected = Upper(me.expected)
                  /\ jobs'[me.jobId].currentIndex = jobs[me.jobId].currentIndex + 1]_vars

(* a task whose expected type is "tilt" has written its PASS verdict, of type
   TILT, and is composing its message with the cursor where it was *)
C38_Witness ==
  \E p \in Procs :
    /\ procs[p].pc = "t_compose"
    /\ procs[p].expected = "tilt"
    /\ procs[p].result.status = "PASS"
    /\ procs[p].result_type = "TILT"
    /\ jobs[procs[p].jobId].currentIndex = 0
    /\ photos[procs[p].last_photo].status = "PASS"


(* the number of PASS photo records of job j *)
PassCount(j) ==
  Cardinality({ k \in 1..Len(photos) : photos[k].jobId = j /\ photos[k].status = "PASS" })

(* every required type code of job j is written in upper case *)
UpperCodes(j) ==
  \A i \in 1..Len(jobs[j].requiredTypes) :
    jobs[j].requiredTypes[i] = Upper(jobs[j].requiredTypes[i])

Quiet == \A p \in Procs : procs[p].pc = "idle"

(* C39: with the deliveries handled one at a time, for a job whose required
   type codes are upper case: the job is DONE only with exactly
   len(requiredTypes) PASS verdicts, and is DONE once that many have been
   processed; a PASS verdict is computed against the required type at the
   position after the PASS verdicts so far; and no photo record is added for
   a job that is DONE *)
C39_SerialCompletion ==
  [][\A j \in 1..Len(jobs') :
       UpperCodes(j)' =>
         /\ jobs'[j].status = "DONE" => PassCount(j)' = Len(jobs'[j].requiredTypes)
         /\ (Quiet' /\ PassCount(j)' = Len(jobs'[j].requiredTypes))
              => jobs'[j].status = "DONE"
         /\ \A p \in Procs :
              (procs[p].pc = "t_pipe" /\ procs[p].jobId = j
                 /\ procs'[p].pc \in {"t_promote", "t_last"}
                 /\ procs'[p].result.status = "PASS")
              => /\ PassCount(j) < Len(jobs[j].requiredTypes)
                 /\ procs[p].expected = jobs[j].requiredTypes[PassCount(j) + 1]
         /\ (j <= Len(jobs) /\ jobs[j].status = "DONE")
              => \A k \in 1..Len(photos') : k > Len(photos) => photos'[k].jobId # j]_vars


(* how far a handler, task or debug upload has got *)
Stage(pc) ==
  CASE pc = "idle" -> 0
    [] pc = "w_find" -> 1
    [] pc = "w_mark" -> 2
    [] pc = "w_fetch" -> 3
    [] pc \in {"t_load", "d_read"} -> 4
    [] pc = "t_pipe" -> 5
    [] pc \in {"t_promote", "d_promote"} -> 6
    [] pc = "t_last" -> 7
    [] pc \in {"t_upd", "d_insert"} -> 8
    [] pc \in {"t_inc", "d_inc"} -> 9
    [] pc \in {"t_reread", "d_reread"} -> 10
    [] pc \in {"t_compose", "d_done"} -> 11
    [] pc = "t_notify" -> 12

(* C40: no step lowers the currentIndex of a job or changes its
   requiredTypes; a step that changes a currentIndex adds 1 to it and is the
   increment of one background task or debug upload, and a task or upload
   only moves forward until it ends, so that it makes one increment at most *)
C40_CursorMonotone ==
  [][/\ \A j \in JobIds :
          /\ jobs'[j].requiredTypes = jobs[j].requiredTypes
          /\ jobs'[j].currentIndex >= jobs[j].currentIndex
          /\ jobs'[j].currentIndex # jobs[j].currentIndex
               => /\ jobs'[j].currentIndex = jobs[j].currentIndex + 1
                  /\ \E p \in Procs : /\ procs[p].pc \in {"t_inc", "d_inc"}
                                      /\ procs[p].jobId = j
                                      /\ Stage(procs'[p].pc) = 10
     /\ \A p \in Procs :
          Steps(p) => \/ procs'[p].pc = "idle"
                      \/ Stage(procs'[p].pc) > Stage(procs[p].pc)]_vars

(* a background task has made its increment: the job is one position further
   than the document the task had loaded *)
C40_Witness ==
  \E p \in Procs :
    /\ procs[p].pc = "t_reread"
    /\ procs[p].job.currentIndex = 1
    /\ jobs[procs[p].jobId].currentIndex = 2

====
